---- MODULE Spec2Model ----
(***************************************************************************)
(* Device-side state machines of two channel-attached storage controllers: *)
(*   - the IBM 360 2400 magnetic tape controller (IBM360/ibm360_mt.c)      *)
(*   - the SEL-32 8064 high speed disk processor (sel32_hsdp.c)            *)
(* Both keep their per-unit state in the same UNIT registers u3..u6, so    *)
(* the model keeps one set of registers and chooses in Init which of the   *)
(* two simulators is running (they are never linked into one binary).      *)
(*                                                                         *)
(* The scheduler (sim_activate), the channel (chan_read_byte,              *)
(* chan_write_byte, chan_end, set_devattn) and the tape library (sim_tape) *)
(* are collaborators whose code is outside the modelled files.             *)
(* Service callbacks of different units may fire in any order: the host    *)
(* issues commands at arbitrary times, so the model keeps each pending     *)
(* callback's delay but no global clock.                                   *)
(***************************************************************************)
EXTENDS Integers, Sequences, FiniteSets, TLC

(* ------------------------------ bounds --------------------------------- *)
NumUnits == 2          \* units on the controller (8 in the device tables)
MaxOps   == 2          \* host/operator operations in one run
MaxCnt   == 2          \* bytes a channel program asks for or supplies
MaxTape  == 2          \* records a tape volume can hold
MaxSect  == 1          \* whole sectors a disk transfer asks for
NumDisks == 1          \* drives of the disk processor the host uses
LeaseOps == 4          \* operations in a run of the buffer-lease scenario
SeekOps  == 2          \* seeks in a run of the long-seek scenario
XferOps  == 3          \* commands in a run of the transfer scenario
MediaOps == 3          \* commands in a run of the damaged-volume scenario
GeomOps  == 1          \* seeks in a run of the geometry scenario

Units == 0 .. (NumUnits - 1)

(* -------------------------- C integer operators ------------------------ *)
RECURSIVE BitAnd(_, _)
BitAnd(a, b) == IF a = 0 \/ b = 0 THEN 0
                ELSE (a % 2) * (b % 2) + 2 * BitAnd(a \div 2, b \div 2)
BitOr(a, b)  == a + b - BitAnd(a, b)
BitXor(a, b) == a + b - 2 * BitAnd(a, b)
BitClr(a, m) == a - BitAnd(a, m)
Has(a, m)    == BitAnd(a, m) # 0

(* ------------------------ channel status flags ------------------------- *)
SNS_BSY     == 16
SNS_CHNEND  == 8
SNS_DEVEND  == 4
SNS_UNITCHK == 2
SNS_UNITEXP == 1

(* ----------------------- tape command codes (u3) ----------------------- *)
MT_WRITE    == 1
MT_READ     == 2
MT_RDBK     == 12
MT_SENSE    == 4
MT_REW      == 7
MT_RUN      == 15
MT_ERG      == 23
MT_WTM      == 31
MT_BSR      == 39
MT_BSF      == 47
MT_FSR      == 55
MT_FSF      == 63
MT_MDEN_800  == 128
MT_MDEN_1600 == 192
MT_MDEN_MSK  == 192
MT_CMDMSK   == 63
MT_READDONE == 1024
MT_ODD      == 4096
MT_TRANS    == 8192
MT_CONV     == 16384
MT_CONV1    == 64
MT_CONV2    == 128
MT_CONV3    == 192

(* ------------------------ tape sense bits (u5) ------------------------- *)
SNS_CMDREJ  == 128
SNS_INTVENT == 64
SNS_EQUCHK  == 16
SNS_DATCHK  == 8
SNS_WCZERO  == 2
SNS_TUASTA  == 64
SNS_7TRACK  == 16
SNS_LOAD    == 8
SNS_WRP     == 2
SNS_VRC     == 128

Shl8(x)  == x * 256
Shl16(x) == x * 65536

(* hwmark == 0xFFFFFFFF marks the buffer empty; as a 32-bit pattern it is  *)
(* -1, and no record length equals it.                                     *)
HWMARK_EMPTY == -1
BUF_EMPTY(S, u) == S.hwmark[u] = HWMARK_EMPTY

parity_table == <<
    0, 64, 64,  0, 64,  0,  0, 64,
   64,  0,  0, 64,  0, 64, 64,  0,
   64,  0,  0, 64,  0, 64, 64,  0,
    0, 64, 64,  0, 64,  0,  0, 64,
   64,  0,  0, 64,  0, 64, 64,  0,
    0, 64, 64,  0, 64,  0,  0, 64,
    0, 64, 64,  0, 64,  0,  0, 64,
   64,  0,  0, 64,  0, 64, 64,  0 >>

bcd_to_ebcdic == <<
    64, 241, 242, 243, 244, 245, 246, 247,
   248, 249, 240, 123, 124, 125, 126, 127,
   122,  97, 226, 227, 228, 229, 230, 231,
   232, 233, 224, 107, 108, 109, 110, 111,
    96, 209, 210, 211, 212, 213, 214, 215,
   216, 217, 208,  91,  92,  93,  94,  95,
    80, 193, 194, 195, 196, 197, 198, 199,
   200, 201, 192,  75,  76,  77,  78,  79 >>

Parity(x) == parity_table[x + 1]
Bcd(x)    == bcd_to_ebcdic[x + 1]

(* ------------------------------ state ---------------------------------- *)
VARIABLES
    sim,         \* "MT": the tape controller runs; "DSK": the disk processor;
                 \* "ITM": the interval timer
    flags,       \* per unit: subset of the unit flag names
    u3,          \* per unit: low 16 bits of u3 (command code and status)
    u4,          \* per unit: buffer position / phase (tape), STAR (disk)
    u5,          \* per unit: packed sense bytes
    u6,          \* per unit: pack register (tape), drive attributes (disk)
    hwmark,      \* per unit: length of the buffered record, or HWMARK_EMPTY
    mt_busy,     \* the controller's buffer busy flag
    mt_buffer,   \* the controller's transfer buffer, indexed from 0
    tape,        \* per unit: the volume, a sequence of records (<<>> = mark)
    pos,         \* per unit: records before the head
    sim_queue,   \* per unit: delay of the pending callback, -1 when none
    ccw_cnt,     \* per unit: bytes left in the channel program's transfer
    ddata,       \* per unit: disk cursor [alloc, cyl, tpos, spos]
    file,        \* per unit: disk file [pos, size] in bytes
    dtype,       \* per unit: index of the drive in hsdp_type
    left,        \* host/operator operations the run may still make
    log,         \* what the last operation did (see NewLog)
    itm_pie,     \* interval timer: pulse enable
    itm_cmd,     \* interval timer: last command given to itm_rdwr
    itm_cnt,     \* interval timer: reload count
    itm_lvl,     \* interval timer: interrupt level
    itm_tick_size_x_100, \* interval timer: hundredths of a microsecond a tick
    itm_unit,    \* interval timer: delay of the pending event in hundredths
                 \* of a microsecond, -1 when none
    rtc_pie,     \* real-time clock: pulse enable
    rtc_tps,     \* real-time clock: ticks per second
    rtc_lvl,     \* real-time clock: interrupt level
    rtc_unit,    \* real-time clock: [wait, event]: the calibrated wait and
                 \* the delay of the pending event, -1 when none
    INTS,        \* per interrupt level: subset of the control flag names
    irq_pend     \* the CPU has been told to scan for interrupts

itmvars == << itm_pie, itm_cmd, itm_cnt, itm_lvl, itm_tick_size_x_100,
              itm_unit, rtc_pie, rtc_tps, rtc_lvl, rtc_unit, INTS, irq_pend >>
vars == << sim, flags, u3, u4, u5, u6, hwmark, mt_busy, mt_buffer, tape, pos,
           sim_queue, ccw_cnt, ddata, file, dtype, left, log, itmvars >>

\* The machine state as one record, so that a C function is an operator
\* from state to state.
Cur == [ flags |-> flags, u3 |-> u3, u4 |-> u4, u5 |-> u5, u6 |-> u6,
         hwmark |-> hwmark, mt_busy |-> mt_busy, mt_buffer |-> mt_buffer,
         tape |-> tape, pos |-> pos, sim_queue |-> sim_queue,
         ccw_cnt |-> ccw_cnt, ddata |-> ddata, file |-> file, dtype |-> dtype,
         log |-> log ]

Becomes(S) ==
    /\ flags' = S.flags /\ u3' = S.u3 /\ u4' = S.u4 /\ u5' = S.u5
    /\ u6' = S.u6 /\ hwmark' = S.hwmark /\ mt_busy' = S.mt_busy
    /\ mt_buffer' = S.mt_buffer /\ tape' = S.tape /\ pos' = S.pos
    /\ sim_queue' = S.sim_queue /\ ccw_cnt' = S.ccw_cnt
    /\ ddata' = S.ddata /\ file' = S.file /\ dtype' = S.dtype
    /\ log' = S.log
    /\ UNCHANGED itmvars

\* The record of one operation: which entry point ran on which unit with
\* which command byte, the command installed on entry (pre), the status it
\* returned (rc, -1 for a handler that returns none), the completions it
\* posted (posts: <<"chan_end" | "set_devattn", flags>>), the bytes it
\* offered to the channel (wr) and how many of them the channel took (acc),
\* the sim_activate calls it made (sched) and whether one of them found
\* the unit already pending (dbl).
NewLog(op, u, cmd, pre) ==
    [ op |-> op, u |-> u, cmd |-> cmd, pre |-> pre, rc |-> -1,
      posts |-> << >>, wr |-> << >>, acc |-> 0, sched |-> 0,
      dbl |-> FALSE ]

\* the clocks as sel32_clk.c declares them (lines 59-61, 72 and 212-216,
\* 229), no event pending and every interrupt level disabled
ItmLevels == { 95, 96 }
RtcLevels == { 24, 95 }
IntLevels == ItmLevels \cup RtcLevels
ItmIdle ==
    /\ itm_pie = 0 /\ itm_cmd = 0 /\ itm_cnt = 0 /\ itm_lvl = 95
    /\ itm_tick_size_x_100 = 3840
    /\ itm_unit = -1
    /\ rtc_pie = 0 /\ rtc_tps = 60 /\ rtc_lvl = 24
    /\ rtc_unit = [ wait |-> 16666, event |-> -1 ]
    /\ INTS = [l \in IntLevels |-> {}]
    /\ irq_pend = 0

Enter(S, op, u, cmd, pre) == [S EXCEPT !.log = NewLog(op, u, cmd, pre)]
Return(S, u, rc) == [S EXCEPT !.log.rc = rc]

(* --------------------------- the scheduler ----------------------------- *)
\* sim_activate: a unit already in the event queue is left where it is.
sim_activate(S, u, t) ==
    [S EXCEPT !.sim_queue[u] = IF @ = -1 THEN t ELSE @,
              !.log.sched = @ + 1,
              !.log.dbl = @ \/ (S.sim_queue[u] # -1)]

(* ---------------------------- the channel ------------------------------ *)
\* chan_write_byte / chan_read_byte return 1 (end of transfer) when the
\* channel program's count is exhausted, else move one byte and return 0.
ChanEnd(S, u) == S.ccw_cnt[u] = 0
chan_write_byte(S, u, ch) ==
    [S EXCEPT !.ccw_cnt[u] = IF @ = 0 THEN 0 ELSE @ - 1,
              !.log.wr = Append(@, ch),
              !.log.acc = IF S.ccw_cnt[u] = 0 THEN @ ELSE @ + 1]
chan_read_byte(S, u) ==
    [S EXCEPT !.ccw_cnt[u] = IF @ = 0 THEN 0 ELSE @ - 1]
chan_end(S, u, fl) ==
    [S EXCEPT !.ccw_cnt[u] = 0,
              !.log.posts = Append(@, << "chan_end", fl >>)]
\* n bytes offered / asked for in a row: the channel moves as many as its
\* count allows
chan_write_bytes(S, u, n) ==
    LET k == IF S.ccw_cnt[u] < n THEN S.ccw_cnt[u] ELSE n
    IN  [S EXCEPT !.ccw_cnt[u] = @ - k, !.log.acc = @ + k]
chan_read_bytes(S, u, n) ==
    LET k == IF S.ccw_cnt[u] < n THEN S.ccw_cnt[u] ELSE n
    IN  [S EXCEPT !.ccw_cnt[u] = @ - k]
test_write_byte_end(S, u) == S.ccw_cnt[u] = 0
\* the channel loads the count of a command before it calls the device's
\* start entry; afterwards a refused command leaves the transfer that was
\* there, and a command that ended at once leaves none
ChanLoad(S, u, cnt) == [S EXCEPT !.ccw_cnt[u] = cnt]
ChanStarted(R, S0, u) ==
    [R EXCEPT !.ccw_cnt[u] = IF R.log.rc = SNS_BSY THEN S0.ccw_cnt[u]
                             ELSE IF R.log.rc = 0 THEN @ ELSE 0]
set_devattn(S, u, fl) ==
    [S EXCEPT !.log.posts = Append(@, << "set_devattn", fl >>)]

\* a unit without a drive data block (DDATA == 0) and without a file
NoData == [ alloc |-> FALSE, cyl |-> 0, tpos |-> 0, spos |-> 0 ]
NoFile == [ pos |-> 0, size |-> 0 ]

(* -------------------------- the tape library --------------------------- *)
\* A volume is a sequence of records; a record is a non-empty sequence of
\* frames and << >> is a tape mark.  pos counts the records before the head.
\* the data converter works on groups of four tape frames that hold three
\* bytes; the model keeps as many cells of the transfer buffer as the
\* longest record of its volumes has frames, one group
GroupFrames == 4
GroupBytes  == 3
BufCells == GroupFrames

Fill(buf, rec) ==
    [i \in 0 .. (BufCells - 1) |-> IF i < Len(rec) THEN rec[i + 1] ELSE buf[i]]
Taken(buf, n) == [i \in 1 .. n |-> buf[i - 1]]

sim_tape_wrp(S, u) == "UNIT_RO" \in S.flags[u]
sim_tape_bot(S, u) == S.pos[u] = 0

\* a record the host cannot read: the library answers an I/O error and
\* leaves the position where it was
Damaged == << -1 >>

\* sim_tape_rdrecf / sim_tape_sprecf: status, record length, new state
RdF_r(S, u)   == IF S.pos[u] >= Len(S.tape[u]) THEN "MTSE_EOM"
                 ELSE IF S.tape[u][S.pos[u] + 1] = << >> THEN "MTSE_TMK"
                 ELSE IF S.tape[u][S.pos[u] + 1] = Damaged THEN "MTSE_IOERR"
                 ELSE "MTSE_OK"
RdF_len(S, u) == IF RdF_r(S, u) = "MTSE_OK"
                 THEN Len(S.tape[u][S.pos[u] + 1]) ELSE 0
sim_tape_sprecf(S, u) ==
    IF RdF_r(S, u) \in {"MTSE_EOM", "MTSE_IOERR"} THEN S
    ELSE [S EXCEPT !.pos[u] = @ + 1]
sim_tape_rdrecf(S, u) ==
    IF RdF_r(S, u) = "MTSE_OK"
    THEN [S EXCEPT !.pos[u] = @ + 1,
                   !.mt_buffer = Fill(@, S.tape[u][S.pos[u] + 1])]
    ELSE sim_tape_sprecf(S, u)

\* sim_tape_rdrecr / sim_tape_sprecr
RdR_r(S, u)   == IF S.pos[u] = 0 THEN "MTSE_BOT"
                 ELSE IF S.tape[u][S.pos[u]] = << >> THEN "MTSE_TMK"
                 ELSE IF S.tape[u][S.pos[u]] = Damaged THEN "MTSE_IOERR"
                 ELSE "MTSE_OK"
RdR_len(S, u) == IF RdR_r(S, u) = "MTSE_OK"
                 THEN Len(S.tape[u][S.pos[u]]) ELSE 0
sim_tape_sprecr(S, u) ==
    IF RdR_r(S, u) \in {"MTSE_BOT", "MTSE_IOERR"} THEN S
    ELSE [S EXCEPT !.pos[u] = @ - 1]
sim_tape_rdrecr(S, u) ==
    IF RdR_r(S, u) = "MTSE_OK"
    THEN [S EXCEPT !.pos[u] = @ - 1,
                   !.mt_buffer = Fill(@, S.tape[u][S.pos[u]])]
    ELSE sim_tape_sprecr(S, u)

\* sim_tape_wrrecf / sim_tape_wrtmk: the record replaces what follows the
\* head; a full volume answers end of medium.
Wr_r(S, u) == IF S.pos[u] >= MaxTape THEN "MTSE_EOM" ELSE "MTSE_OK"
WriteAt(S, u, rec) ==
    IF Wr_r(S, u) = "MTSE_EOM" THEN S
    ELSE [S EXCEPT !.tape[u] = Append(SubSeq(@, 1, S.pos[u]), rec),
                   !.pos[u] = @ + 1]
sim_tape_wrrecf(S, u, n) == WriteAt(S, u, Taken(S.mt_buffer, n))
sim_tape_wrtmk(S, u)     == WriteAt(S, u, << >>)
sim_tape_wrgap(S, u)     == [S EXCEPT !.tape[u] = SubSeq(@, 1, S.pos[u])]
sim_tape_rewind(S, u)    == [S EXCEPT !.pos[u] = 0]
sim_tape_detach(S, u) ==
    [S EXCEPT !.flags[u] = @ \ {"UNIT_ATT", "UNIT_RO"},
              !.tape[u] = << >>, !.pos[u] = 0]

(* ---------------------------- mt_startcmd ------------------------------ *)
MtCmd(S, u) == BitAnd(S.u3[u], MT_CMDMSK)
ModeBits    == MT_ODD + MT_TRANS + MT_CONV + MT_MDEN_MSK

\* the sense word built for a motion, read or write command
Snapshot(S, u) ==
    LET a == Shl8(SNS_TUASTA)
        b == IF "MTUF_9TR" \notin S.flags[u]
             THEN BitOr(a, Shl8(SNS_7TRACK)) ELSE a
        c == IF sim_tape_wrp(S, u) THEN BitOr(b, Shl8(SNS_WRP)) ELSE b
    IN  IF sim_tape_bot(S, u) THEN BitOr(c, Shl8(SNS_LOAD)) ELSE c

\* a start that installs and schedules the command but leaves the record
\* length of the previous transfer in place of the buffer-empty sentinel
MtInstallStaleMark(S, u, cmd) ==
    LET A == IF cmd % 16 # 4 THEN [S EXCEPT !.u5[u] = Snapshot(S, u)] ELSE S
        B == [A EXCEPT !.u3[u] = BitOr(BitClr(@, MT_CMDMSK),
                                       BitAnd(cmd, MT_CMDMSK))]
        C == sim_activate(B, u, 1000)
        D == [C EXCEPT !.u4[u] = 0, !.u6[u] = 0, !.mt_busy = 1]
    IN  Return(D, u, IF cmd % 8 = 7 THEN SNS_CHNEND ELSE 0)

\* case 0x7, 0xf, 0x1, 0x2, 0xc (snapshot, then fall through) and case 0x4
MtInstall(S, u, cmd) ==
    LET A == IF cmd % 16 # 4 THEN [S EXCEPT !.u5[u] = Snapshot(S, u)] ELSE S
        B == [A EXCEPT !.u3[u] = BitOr(BitClr(@, MT_CMDMSK),
                                       BitAnd(cmd, MT_CMDMSK))]
        C == sim_activate(B, u, 1000)
        D == [C EXCEPT !.hwmark[u] = HWMARK_EMPTY, !.u4[u] = 0,
                       !.u6[u] = 0, !.mt_busy = 1]
    IN  Return(D, u, IF cmd % 8 = 7 THEN SNS_CHNEND ELSE 0)

\* the tail of mt_startcmd after the switch
MtStartTail(S, u) ==
    IF BitAnd(S.u5[u], 255) # 0
    THEN Return(S, u, SNS_CHNEND + SNS_DEVEND + SNS_UNITCHK)
    ELSE Return(S, u, SNS_CHNEND + SNS_DEVEND)

\* a mode set whose 7-track "reset condition" sub-code leaves the data
\* converter off
MtControlResetNoConverter(S, u, cmd) ==
    LET dens == BitAnd(cmd, MT_MDEN_MSK)
        Mode(extra) == [S EXCEPT
            !.u5[u] = 0,
            !.u3[u] = BitOr(BitClr(@, ModeBits), dens + extra)]
        sel == (cmd \div 8) % 8
    IN  IF "UNIT_ATT" \notin S.flags[u]
        THEN Return([S EXCEPT !.u5[u] = BitOr(@, SNS_INTVENT)], u,
                    SNS_CHNEND + SNS_DEVEND + SNS_UNITCHK)
        ELSE IF "MTUF_9TR" \notin S.flags[u]
        THEN LET T == [S EXCEPT !.u5[u] = BitOr(@, Shl8(SNS_7TRACK))]
             IN  IF dens = 192
                 THEN Return([T EXCEPT !.u5[u] = BitOr(@, SNS_CMDREJ)], u,
                             SNS_CHNEND + SNS_DEVEND + SNS_UNITCHK)
                 ELSE IF sel \in {0, 1, 3}
                 THEN Return(T, u, SNS_CHNEND + SNS_DEVEND)
                 ELSE MtStartTail(
                        CASE sel = 2 -> Mode(MT_ODD)
                          [] sel = 4 -> Mode(0)
                          [] sel = 5 -> Mode(MT_TRANS)
                          [] sel = 6 -> Mode(MT_ODD)
                          [] sel = 7 -> Mode(MT_ODD + MT_TRANS), u)
        ELSE MtStartTail(
               [S EXCEPT !.u5[u] = 0,
                         !.u3[u] = BitOr(BitClr(@, MT_MDEN_MSK),
                                         IF Has(cmd, 8) THEN MT_MDEN_800
                                                        ELSE MT_MDEN_1600)], u)

\* case 0x3, 0xb: control (mode set)
MtControl(S, u, cmd) ==
    LET dens == BitAnd(cmd, MT_MDEN_MSK)
        Mode(extra) == [S EXCEPT
            !.u5[u] = 0,
            !.u3[u] = BitOr(BitClr(@, ModeBits), dens + extra)]
        sel == (cmd \div 8) % 8
    IN  IF "UNIT_ATT" \notin S.flags[u]
        THEN Return([S EXCEPT !.u5[u] = BitOr(@, SNS_INTVENT)], u,
                    SNS_CHNEND + SNS_DEVEND + SNS_UNITCHK)
        ELSE IF "MTUF_9TR" \notin S.flags[u]
        THEN LET T == [S EXCEPT !.u5[u] = BitOr(@, Shl8(SNS_7TRACK))]
             IN  IF dens = 192
                 THEN Return([T EXCEPT !.u5[u] = BitOr(@, SNS_CMDREJ)], u,
                             SNS_CHNEND + SNS_DEVEND + SNS_UNITCHK)
                 ELSE IF sel \in {0, 1, 3}
                 THEN Return(T, u, SNS_CHNEND + SNS_DEVEND)
                 ELSE MtStartTail(
                        CASE sel = 2 -> Mode(MT_ODD + MT_CONV)
                          [] sel = 4 -> Mode(0)
                          [] sel = 5 -> Mode(MT_TRANS)
                          [] sel = 6 -> Mode(MT_ODD)
                          [] sel = 7 -> Mode(MT_ODD + MT_TRANS), u)
        ELSE MtStartTail(
               [S EXCEPT !.u5[u] = 0,
                         !.u3[u] = BitOr(BitClr(@, MT_MDEN_MSK),
                                         IF Has(cmd, 8) THEN MT_MDEN_800
                                                        ELSE MT_MDEN_1600)], u)

MtBusyPath(S, u) ==
    Return([S EXCEPT !.flags[u] = @ \cup {"MT_BUSY"}], u, SNS_BSY)

mt_startcmd(S0, u, cmd) ==
    LET S   == Enter(S0, "start", u, cmd, MtCmd(S0, u))
        nib == cmd % 16
    IN  IF S.mt_busy # 0 \/ MtCmd(S, u) # 0 THEN MtBusyPath(S, u)
        ELSE IF nib \in {7, 15, 1, 2, 12, 4} THEN MtInstall(S, u, cmd)
        ELSE IF nib \in {3, 11} THEN MtControl(S, u, cmd)
        ELSE IF nib = 0 THEN MtStartTail(S, u)
        ELSE MtStartTail([S EXCEPT !.u5[u] = BitOr(@, SNS_CMDREJ)], u)
\* a variant of mt_error that reports the end of the medium without
\* recording the equipment check
MtErrorNoEquipmentCheck(S, u, r) ==
    LET A == [S EXCEPT !.mt_busy = BitClr(@, 1)]
    IN  IF r = "MTSE_TMK" \/ r = "MTSE_EOM"
        THEN chan_end(A, u, SNS_CHNEND + SNS_DEVEND + SNS_UNITEXP)
        ELSE chan_end(A, u, SNS_CHNEND + SNS_DEVEND)


(* ------------------------------ mt_error ------------------------------- *)
mt_error(S, u, r) ==
    LET A == [S EXCEPT !.mt_busy = BitClr(@, 1)]
    IN  IF r = "MTSE_TMK"
        THEN chan_end(A, u, SNS_CHNEND + SNS_DEVEND + SNS_UNITEXP)
        ELSE IF r = "MTSE_EOM"
        THEN chan_end([A EXCEPT !.u5[u] = SNS_EQUCHK], u,
                      SNS_CHNEND + SNS_DEVEND + SNS_UNITEXP)
        ELSE chan_end(A, u, SNS_CHNEND + SNS_DEVEND)

(* ------------------------------- mt_srv -------------------------------- *)
\* unsigned comparison of two 32-bit values held as signed integers
ULess(a, b) == IF (a < 0) = (b < 0) THEN a < b ELSE b < 0

\* mt_buffer[bufnum][i]; an index outside the array reads whatever the
\* build has there (ub)
BufAt(S, i, ub) == IF i \in 0 .. (BufCells - 1) THEN S.mt_buffer[i] ELSE ub
BufPut(S, u, ch) ==
    [S EXCEPT !.mt_buffer = [i \in 0 .. (BufCells - 1) |->
                                IF i = S.u4[u] THEN ch ELSE @[i]],
              !.u4[u] = @ + 1]

\* uptr->u3 &= ~MT_CMDMSK (or more); mt_busy[bufnum] &= ~1
MtDone(S, u, mask) ==
    [S EXCEPT !.u3[u] = BitClr(@, mask), !.mt_busy = BitClr(@, 1)]

CED  == SNS_CHNEND + SNS_DEVEND
CEDU == SNS_CHNEND + SNS_DEVEND + SNS_UNITCHK

Is7Track(S, u) == "MTUF_9TR" \notin S.flags[u]
ModeOf(S, u)   == IF Has(S.u3[u], MT_ODD) THEN 0 ELSE 64

\* a Sense service that ends like any other command on a drive without a
\* volume: no sense bytes, unit check
MtSrvSenseChecked(S, u) == chan_end(MtDone(S, u, MT_CMDMSK), u, CEDU)

MtSrvSense(S, u) ==
    LET b0 == BitAnd(S.u5[u], 255)
        b1 == BitAnd(S.u5[u] \div 256, 255)
        b3 == BitAnd(S.u5[u] \div 65536, 255)
        A  == chan_write_byte(S, u, b0)
        B  == chan_write_byte(A, u, b1)
        C  == chan_write_byte(B, u, 192)
        D  == chan_write_byte(C, u, b3)
        E  == chan_write_byte(D, u, 0)
        F  == chan_write_byte(E, u, 0)
    IN  chan_end(MtDone(F, u, MT_CMDMSK), u, CED)

\* a variant of the send step that ends the record without releasing the
\* channel: the last byte is followed by DEVICE-END alone
MtReadSendDeviceEndOnly(S, u, ch) ==
    LET W == chan_write_byte(S, u, ch)
    IN  IF ChanEnd(S, u)
        THEN IF ULess(W.u4[u], W.hwmark[u])
             THEN LET X == chan_write_byte(W, u, ch)
                      Y == sim_activate(X, u, (X.hwmark[u] - X.u4[u]) * 20)
                  IN  [Y EXCEPT !.u3[u] = BitOr(@, MT_READDONE)]
             ELSE chan_end(MtDone(W, u, MT_CMDMSK), u, SNS_DEVEND)
        ELSE IF ~ULess(W.u4[u], W.hwmark[u])
             THEN chan_end(MtDone(W, u, MT_CMDMSK), u, SNS_DEVEND)
             ELSE sim_activate(W, u, 20)

\* "Send character over to channel" of MT_READ
MtReadSend(S, u, ch) ==
    LET W == chan_write_byte(S, u, ch)
    IN  IF ChanEnd(S, u)
        THEN IF ULess(W.u4[u], W.hwmark[u])
             THEN LET X == chan_write_byte(W, u, ch)
                      Y == sim_activate(X, u, (X.hwmark[u] - X.u4[u]) * 20)
                  IN  [Y EXCEPT !.u3[u] = BitOr(@, MT_READDONE)]
             ELSE chan_end(MtDone(W, u, MT_CMDMSK), u, SNS_DEVEND)
        ELSE IF ~ULess(W.u4[u], W.hwmark[u])
             THEN chan_end(MtDone(W, u, MT_CMDMSK), u, CED)
             ELSE sim_activate(W, u, 20)

\* the parity test of MT_READ on the frame raw in the mode (0 odd, 0100
\* even): TRUE raises the data check
ReadParityError(raw, mode) ==
    BitXor(BitXor(Parity(raw % 64), BitAnd(raw, 64)), mode) = 0

\* the 7-track branch of MT_READ on the frame raw
MtRead7(S, u, raw) ==
    LET perr == ReadParityError(raw, ModeOf(S, u))
        C    == IF perr
                THEN [S EXCEPT !.u5[u] = BitOr(@, Shl16(SNS_VRC) + SNS_DATCHK)]
                ELSE S
        c1   == raw % 64
        ch   == IF Has(S.u3[u], MT_TRANS) THEN Bcd(c1) ELSE c1
        r6   == C.u6[u]
        top  == BitAnd(r6, 192)
    IN  IF ~Has(S.u3[u], MT_CONV) THEN MtReadSend(C, u, ch)
        ELSE IF r6 = 0 /\ ULess(C.u4[u], C.hwmark[u])
        THEN sim_activate([C EXCEPT !.u6[u] = BitOr(MT_CONV1, ch)], u, 20)
        ELSE IF top = MT_CONV1
        THEN MtReadSend([C EXCEPT !.u6[u] = BitOr(MT_CONV2, ch)], u,
                        BitOr(BitAnd(r6, 63) * 4, (ch \div 16) % 4) % 256)
        ELSE IF top = MT_CONV2
        THEN MtReadSend([C EXCEPT !.u6[u] = BitOr(MT_CONV3, ch)], u,
                        BitOr(BitAnd(r6, 15) * 16, (ch \div 4) % 16) % 256)
        ELSE IF top = MT_CONV3
        THEN MtReadSend([C EXCEPT !.u6[u] = 0], u,
                        BitOr(ch, BitAnd(r6, 3) * 64) % 256)
        ELSE MtReadSend(C, u, ch)

MtSrvRead(S, u, ub) ==
    IF Has(S.u3[u], MT_READDONE)
    THEN chan_end(MtDone(S, u, MT_CMDMSK + MT_READDONE), u, CED)
    ELSE IF BUF_EMPTY(S, u) /\ RdF_r(S, u) # "MTSE_OK"
    THEN mt_error([sim_tape_rdrecf(S, u) EXCEPT
                      !.u3[u] = BitClr(@, MT_CMDMSK + MT_READDONE)],
                  u, RdF_r(S, u))
    ELSE LET A   == IF BUF_EMPTY(S, u)
                    THEN [sim_tape_rdrecf(S, u) EXCEPT
                             !.u4[u] = 0, !.hwmark[u] = RdF_len(S, u)]
                    ELSE S
             raw == BufAt(A, A.u4[u], ub)
             B   == [A EXCEPT !.u4[u] = @ + 1]
         IN  IF Is7Track(S, u) THEN MtRead7(B, u, raw)
             ELSE MtReadSend(B, u, raw)

\* the 7-track branch of MT_WRITE on the channel byte din: the state with
\* the frames stored
MtWrite7(S, u, din) ==
    LET mode == ModeOf(S, u)
        c1   == IF Has(S.u3[u], MT_TRANS)
                THEN BitOr(din % 16, BitXor(BitAnd(din, 48), 48)) ELSE din
        r6   == S.u6[u]
        top  == BitAnd(r6, 192)
        conv == Has(S.u3[u], MT_CONV)
        x    == BitOr(BitAnd(r6, 15) * 4, (c1 \div 64) % 4) % 256
        xp   == BitXor(x, BitXor(Parity(x % 64), mode))
        A    == IF ~conv THEN S
                ELSE IF r6 = 0
                THEN [S EXCEPT !.u6[u] = BitOr(MT_CONV1, c1 % 4)]
                ELSE IF top = MT_CONV1
                THEN [S EXCEPT !.u6[u] = BitOr(MT_CONV2, c1 % 16)]
                ELSE IF top = MT_CONV2
                THEN [BufPut(S, u, xp) EXCEPT !.u6[u] = 0]
                ELSE S
        c2   == IF ~conv THEN c1
                ELSE IF r6 = 0 THEN c1 \div 4
                ELSE IF top = MT_CONV1
                THEN BitOr(BitAnd(r6, 3) * 16, (c1 \div 16) % 16) % 256
                ELSE IF top = MT_CONV2 THEN xp
                ELSE c1
        c3   == c2 % 64
    IN  BufPut(A, u, BitOr(c3, BitXor(Parity(c3), mode)))

MtSrvWrite(S, u, din) ==
    IF sim_tape_wrp(S, u)
    THEN chan_end(MtDone([S EXCEPT !.u5[u] = BitOr(@, SNS_CMDREJ)],
                         u, MT_CMDMSK), u, CEDU)
    ELSE IF ChanEnd(S, u)
    THEN LET R == chan_read_byte(S, u)
         IN  IF R.u4[u] > 0
             THEN LET W == [sim_tape_wrrecf(R, u, R.hwmark[u]) EXCEPT
                               !.u4[u] = 0, !.u3[u] = BitClr(@, MT_CMDMSK)]
                  IN  sim_activate(mt_error(W, u, Wr_r(R, u)), u, 20)
             ELSE sim_activate([R EXCEPT !.u5[u] = BitOr(@, SNS_WCZERO)],
                               u, 20)
    ELSE LET R == chan_read_byte(S, u)
             T == IF Is7Track(S, u) THEN MtWrite7(R, u, din)
                  ELSE BufPut(R, u, din)
         IN  [T EXCEPT !.hwmark[u] = T.u4[u]]

\* sending the character of MT_RDBK
MtRdbkSend(S, u, ch) ==
    LET W == chan_write_byte(S, u, ch)
    IN  IF ChanEnd(S, u)
        THEN IF W.u4[u] >= 0
             THEN [sim_activate(W, u, W.u4[u] * 20) EXCEPT
                      !.u3[u] = BitOr(@, MT_READDONE)]
             ELSE chan_end(MtDone(W, u, MT_CMDMSK), u, CED)
        ELSE IF W.u4[u] = 0
             THEN chan_end(MtDone(W, u, MT_CMDMSK), u, CED)
             ELSE sim_activate(W, u, 20)

\* the parity test of MT_RDBK: the frame is masked before the test reads
\* its parity bit
RdbkParityError(raw, mode) ==
    LET c1 == raw % 64
    IN  BitXor(BitXor(Parity(c1), BitAnd(c1, 64)), mode) = 0

\* the 7-track branch of MT_RDBK
MtRdbk7(S, u, raw) ==
    LET c1   == raw % 64
        perr == RdbkParityError(raw, ModeOf(S, u))
        C    == IF perr
                THEN [S EXCEPT !.u5[u] = BitOr(@, Shl16(SNS_VRC) + SNS_DATCHK)]
                ELSE S
        ch   == IF Has(S.u3[u], MT_TRANS) THEN Bcd(c1) ELSE c1
        r6   == C.u6[u]
        top  == BitAnd(r6, 192)
    IN  IF ~Has(S.u3[u], MT_CONV) THEN MtRdbkSend(C, u, ch)
        ELSE IF r6 = 0 /\ ULess(C.u4[u], C.hwmark[u])
        THEN sim_activate([C EXCEPT !.u6[u] = BitOr(MT_CONV1, ch)], u, 20)
        ELSE IF top = MT_CONV1
        THEN MtRdbkSend([C EXCEPT !.u6[u] = BitOr(MT_CONV2, ch)], u,
                        BitOr(BitAnd(r6, 63), BitAnd(ch * 64, 192)))
        ELSE IF top = MT_CONV2
        THEN MtRdbkSend([C EXCEPT !.u6[u] = BitOr(MT_CONV3, ch)], u,
                        BitOr(BitAnd(r6, 60) \div 4, BitAnd(ch * 16, 240)))
        ELSE IF top = MT_CONV3
        THEN MtRdbkSend([C EXCEPT !.u6[u] = 0], u,
                        BitOr(ch, BitAnd(r6, 48) \div 16))
        ELSE MtRdbkSend(C, u, ch)

MtSrvRdbk(S, u, ub) ==
    IF Has(S.u3[u], MT_READDONE)
    THEN chan_end(MtDone(S, u, MT_CMDMSK + MT_READDONE), u, CED)
    ELSE IF BUF_EMPTY(S, u) /\ sim_tape_bot(S, u)
    THEN chan_end(MtDone(S, u, MT_CMDMSK), u, CEDU)
    ELSE IF BUF_EMPTY(S, u) /\ RdR_r(S, u) # "MTSE_OK"
    THEN mt_error([sim_tape_rdrecr(S, u) EXCEPT
                      !.u3[u] = BitClr(@, MT_CMDMSK + MT_READDONE)],
                  u, RdR_r(S, u))
    ELSE LET A   == IF BUF_EMPTY(S, u)
                    THEN [sim_tape_rdrecr(S, u) EXCEPT
                             !.u4[u] = RdR_len(S, u),
                             !.hwmark[u] = RdR_len(S, u)]
                    ELSE S
             B   == [A EXCEPT !.u4[u] = @ - 1]
             raw == BufAt(B, B.u4[u], ub)
         IN  IF Is7Track(S, u) THEN MtRdbk7(B, u, raw)
             ELSE MtRdbkSend(B, u, raw)

\* the motion commands: u4 is the phase
Phase(S, u, n, t) == sim_activate([S EXCEPT !.u4[u] = n], u, t)
MtAttn(S, u, fl)  == set_devattn(MtDone(S, u, MT_CMDMSK), u, fl)
DE  == SNS_DEVEND
DEU == SNS_DEVEND + SNS_UNITCHK
DEX == SNS_DEVEND + SNS_UNITEXP

MtSrvWtm(S, u) ==
    IF S.u4[u] = 0
    THEN IF sim_tape_wrp(S, u)
         THEN MtAttn([S EXCEPT !.u5[u] = BitOr(@, SNS_CMDREJ)], u, DEU)
         ELSE Phase(S, u, 1, 500)
    ELSE MtAttn(sim_tape_wrtmk(S, u), u, DE)

MtSrvBsr(S, u) ==
    LET p == S.u4[u]
    IN  IF p = 0
        THEN IF sim_tape_bot(S, u) THEN MtAttn(S, u, DEU)
             ELSE Phase(S, u, 1, 500)
        ELSE IF p = 1
        THEN IF RdR_r(S, u) = "MTSE_TMK"
             THEN Phase(sim_tape_sprecr(S, u), u, 3, 50)
             ELSE Phase(sim_tape_sprecr(S, u), u, 2, 10 + 10 * RdR_len(S, u))
        ELSE IF p = 2 THEN MtAttn(S, u, DE)
        ELSE IF p = 3 THEN MtAttn(S, u, DEX)
        ELSE S

MtSrvBsf(S, u) ==
    LET p == S.u4[u]
    IN  IF p = 0
        THEN IF sim_tape_bot(S, u) THEN MtAttn(S, u, DEU)
             ELSE Phase(S, u, 1, 500)
        ELSE IF p = 1
        THEN IF RdR_r(S, u) = "MTSE_TMK"
             THEN Phase(sim_tape_sprecr(S, u), u, 2, 50)
             ELSE IF RdR_r(S, u) = "MTSE_BOT"
             THEN Phase(sim_tape_sprecr(S, u), u, 3, 50)
             ELSE Phase(sim_tape_sprecr(S, u), u, 1, 10 + 10 * RdR_len(S, u))
        ELSE IF p = 2 THEN MtAttn(S, u, DEX)
        ELSE IF p = 3 THEN MtAttn(S, u, DEU)
        ELSE S

MtSrvFsr(S, u) ==
    LET p == S.u4[u]
    IN  IF p = 0 THEN Phase(S, u, 1, 500)
        ELSE IF p = 1
        THEN IF RdF_r(S, u) = "MTSE_TMK"
             THEN Phase(sim_tape_sprecf(S, u), u, 3, 50)
             ELSE IF RdF_r(S, u) = "MTSE_EOM"
             THEN Phase(sim_tape_sprecf(S, u), u, 4, 50)
             ELSE Phase(sim_tape_sprecf(S, u), u, 2, 10 + 10 * RdF_len(S, u))
        ELSE IF p = 2 THEN MtAttn(S, u, DE)
        ELSE IF p = 3 THEN MtAttn(S, u, DEX)
        ELSE IF p = 4 THEN MtAttn(S, u, DEU)
        ELSE S

MtSrvFsf(S, u) ==
    LET p == S.u4[u]
    IN  IF p = 0 THEN Phase(S, u, 1, 500)
        ELSE IF p = 1
        THEN IF RdF_r(S, u) = "MTSE_TMK"
             THEN Phase(sim_tape_sprecf(S, u), u, 2, 50)
             ELSE IF RdF_r(S, u) = "MTSE_EOM"
             THEN Phase(sim_tape_sprecf(S, u), u, 3, 50)
             ELSE Phase(sim_tape_sprecf(S, u), u, 1, 10 + 10 * RdF_len(S, u))
        ELSE IF p = 2 THEN MtAttn(S, u, DE)
        ELSE IF p = 3 THEN MtAttn(S, u, DEU)
        ELSE S

MtSrvErg(S, u) ==
    LET p == S.u4[u]
    IN  IF p = 0
        THEN IF sim_tape_wrp(S, u)
             THEN MtAttn([S EXCEPT !.u5[u] = BitOr(@, SNS_CMDREJ)], u, DEU)
             ELSE Phase(S, u, 1, 500)
        ELSE IF p = 1 THEN Phase(sim_tape_wrgap(S, u), u, 2, 5000)
        ELSE IF p = 2 THEN MtAttn(S, u, DE)
        ELSE S

\* MT_REW and MT_RUN give the buffer back in their first phase and keep
\* the command installed until the tape has moved
MtSrvRew(S, u) ==
    IF S.u4[u] = 0
    THEN [Phase(S, u, 1, 30000) EXCEPT !.mt_busy = BitClr(@, 1)]
    ELSE set_devattn([sim_tape_rewind(S, u) EXCEPT
                         !.u3[u] = BitClr(@, MT_CMDMSK)], u, DE)

MtSrvRun(S, u) ==
    IF S.u4[u] = 0
    THEN [Phase(S, u, 1, 30000) EXCEPT !.mt_busy = BitClr(@, 1)]
    ELSE set_devattn([sim_tape_detach(S, u) EXCEPT
                         !.u3[u] = BitClr(@, MT_CMDMSK)], u, DE)

MtSrvMotion(S, u) ==
    LET cmd == MtCmd(S, u)
    IN  CASE cmd = MT_WTM -> MtSrvWtm(S, u)
          [] cmd = MT_BSR -> MtSrvBsr(S, u)
          [] cmd = MT_BSF -> MtSrvBsf(S, u)
          [] cmd = MT_FSR -> MtSrvFsr(S, u)
          [] cmd = MT_FSF -> MtSrvFsf(S, u)
          [] cmd = MT_ERG -> MtSrvErg(S, u)
          [] cmd = MT_REW -> MtSrvRew(S, u)
          [] cmd = MT_RUN -> MtSrvRun(S, u)
          [] OTHER -> S

\* the handler the scheduler calls once the unit has left the event queue;
\* din is the byte the channel supplies if asked, ub the byte an
\* out-of-range buffer read yields
mt_srv(S0, u, din, ub) ==
    LET Q   == [S0 EXCEPT !.sim_queue[u] = -1]
        S   == Enter(Q, "srv", u, 0, MtCmd(Q, u))
        cmd == MtCmd(S, u)
        nib == cmd % 16
    IN  IF "UNIT_ATT" \notin S.flags[u] /\ cmd # MT_SENSE
        THEN chan_end(MtDone([S EXCEPT !.u5[u] = BitOr(@, SNS_INTVENT)],
                             u, MT_CMDMSK), u, CEDU)
        ELSE LET T == IF "UNIT_ATT" \notin S.flags[u]
                      THEN [S EXCEPT !.u5[u] = BitOr(@, SNS_INTVENT)]
                      ELSE S
             IN  CASE nib = 0        -> T
                   [] nib = MT_SENSE -> MtSrvSense(T, u)
                   [] nib = MT_READ  -> MtSrvRead(T, u, ub)
                   [] nib = MT_WRITE -> MtSrvWrite(T, u, din)
                   [] nib = MT_RDBK  -> MtSrvRdbk(T, u, ub)
                   [] nib \in {7, 15} -> MtSrvMotion(T, u)
                   [] OTHER -> T

(* --------------------- mt_attach, mt_detach, mt_reset ------------------ *)
\* u3 &= UNIT_ADDR_MASK keeps the device address, which lies above the 16
\* bits modelled, so the modelled part of u3 becomes 0
mt_attach(S0, u, img, ro) ==
    LET S == Enter(S0, "attach", u, 0, MtCmd(S0, u))
        A == [S EXCEPT !.flags[u] = (@ \cup {"UNIT_ATT"})
                                     \cup (IF ro THEN {"UNIT_RO"} ELSE {}),
                       !.tape[u] = img, !.pos[u] = 0]
        B == set_devattn(A, u, SNS_DEVEND)
    IN  [B EXCEPT !.u3[u] = 0, !.u4[u] = 0, !.u5[u] = 0]

mt_detach(S0, u) ==
    LET S == Enter(S0, "detach", u, 0, MtCmd(S0, u))
        A == [S EXCEPT !.u3[u] = 0,
                       !.u4[u] = 0, !.u5[u] = 0]
    IN  sim_tape_detach(A, u)

mt_reset(S0) == Enter(S0, "reset", 0, 0, 0)

\* mt_ini (lines 866-875), the initialisation the channel asks of a unit:
\* the command and mode bits are replaced by the unit's initial mode and the
\* controller's buffer is released; a pending callback is left in the queue
mt_ini(S0, u) ==
    LET S == Enter(S0, "ini", u, 0, MtCmd(S0, u))
    IN  [S EXCEPT !.u3[u] = IF Is7Track(S, u)
                            THEN MT_ODD + MT_CONV + MT_MDEN_800 ELSE 0,
                  !.mt_busy = 0]

\* mt_boot (lines 907-919): refused without a volume; a 7-track unit gets
\* its initial mode in place of command and mode, a 9-track unit keeps u3;
\* chan_boot then starts the channel, which touches none of the unit's fields
mt_boot(S0, u) ==
    LET S == Enter(S0, "boot", u, 0, MtCmd(S0, u))
    IN  IF "UNIT_ATT" \notin S.flags[u] THEN S
        ELSE IF Is7Track(S, u)
             THEN [S EXCEPT !.u3[u] = MT_ODD + MT_CONV + MT_MDEN_800]
             ELSE S

(* ------------------------- inputs of the model ------------------------- *)
\* the mode sets: every sub-code (bits 3-5) with density code 0, one with
\* density code 0x80 and one with the density code 0xC0
ModeSetCmds == { 3, 11, 19, 27, 35, 43, 51, 59, 147, 195 }
\* command bytes the channel may start on a tape unit: every command the
\* controller knows, the mode sets, and bytes it does not know
TapeCmds == { MT_WRITE, MT_READ, MT_RDBK, MT_SENSE, MT_REW, MT_RUN, MT_ERG,
              MT_WTM, MT_BSR, MT_BSF, MT_FSR, MT_FSF, 0, 5, 20 }
            \cup ModeSetCmds
\* frames on the volumes and bytes the channel supplies
ChanBytes == { 1, 199 }
UbBytes   == { 0, 65 }
TapeImages == { << >>, << <<1, 65>> >> }

\* mt_ini: the registers of a unit after the channel has initialised it
MtIniU3(tr9) == IF tr9 THEN 0 ELSE MT_ODD + MT_CONV + MT_MDEN_800

\* a unit as the operator may have set it up before the run: track type,
\* and a volume mounted (writable or read-only) or none
Drive(tr9, att, ro, img) == [ tr9 |-> tr9, att |-> att, ro |-> ro, img |-> img ]

\* the installations a run starts from: unit 0 is set up as the first
\* drive of a pair, every other unit as the second
ControllerSetups ==
    { << Drive(TRUE,  TRUE,  FALSE, << << >>, <<199>> >>),
         Drive(TRUE,  TRUE,  FALSE, << <<1, 65>> >>) >>,
      << Drive(FALSE, TRUE,  FALSE, << <<1, 65>> >>),
         Drive(TRUE,  FALSE, FALSE, << >>) >>,
      << Drive(TRUE,  TRUE,  TRUE,  << <<1, 65>> >>),
         Drive(FALSE, TRUE,  FALSE, << << >>, <<199>> >>) >>,
      << Drive(TRUE,  FALSE, FALSE, << >>),
         Drive(FALSE, FALSE, FALSE, << >>) >> }

SetupFlags(c) == (IF c.tr9 THEN {"MTUF_9TR"} ELSE {})
                 \cup (IF c.att THEN {"UNIT_ATT"} ELSE {})
                 \cup (IF c.ro THEN {"UNIT_RO"} ELSE {})

InitTape(setups, ops) ==
    /\ sim = "MT"
    /\ \E p \in setups :
          LET c == [u \in Units |-> IF u = 0 THEN p[1] ELSE p[2]]
          IN  /\ flags = [u \in Units |-> SetupFlags(c[u])]
              /\ u3 = [u \in Units |-> MtIniU3(c[u].tr9)]
              /\ tape = [u \in Units |-> c[u].img]
    /\ u4 = [u \in Units |-> 0]
    /\ u5 = [u \in Units |-> 0]
    /\ u6 = [u \in Units |-> 0]
    /\ hwmark = [u \in Units |-> 0]
    /\ mt_busy = 0
    /\ mt_buffer = [i \in 0 .. (BufCells - 1) |-> 0]
    /\ pos = [u \in Units |-> 0]
    /\ sim_queue = [u \in Units |-> -1]
    /\ ccw_cnt = [u \in Units |-> 0]
    /\ ddata = [u \in Units |-> NoData]
    /\ file = [u \in Units |-> NoFile]
    /\ dtype = [u \in Units |-> 0]
    /\ left = ops
    /\ log = NewLog("init", 0, 0, 0)
    /\ ItmIdle

InitMT == InitTape(ControllerSetups, MaxOps)

\* the counts worth trying with a command: the controller moves data for
\* the read, write and sense codes only
StartCnts(cmd) == IF cmd % 16 \in {MT_WRITE, MT_READ, MT_RDBK, MT_SENSE}
                  THEN 0 .. MaxCnt ELSE {0}

\* the command bytes worth trying on a unit: mt_startcmd answers Busy
\* before it looks at the byte, so a unit with a command installed is
\* tried with two of them, and an idle unit that finds the buffer held
\* with a Sense and a mode set as well
MtIsBusy(u) == mt_busy # 0 \/ MtCmd(Cur, u) # 0
StartCmds(u) == IF MtCmd(Cur, u) # 0 THEN {MT_READ, MT_REW}
                ELSE IF mt_busy # 0 THEN {MT_READ, MT_REW, MT_SENSE, 19}
                ELSE TapeCmds

MtStart(u, cmd, cnt) ==
    /\ sim = "MT" /\ left > 0
    /\ Becomes(ChanStarted(mt_startcmd(ChanLoad(Cur, u, cnt), u, cmd), Cur, u))
    /\ left' = left - 1 /\ UNCHANGED sim

\* the inputs a service step can consume: a channel byte when it writes,
\* a stray byte when it reads the buffer backward
SrvDins(u) == IF MtCmd(Cur, u) % 16 = MT_WRITE /\ ccw_cnt[u] > 0
              THEN ChanBytes ELSE {0}
SrvUbs(u)  == IF MtCmd(Cur, u) % 16 = MT_RDBK THEN UbBytes ELSE {0}

MtSrv(u, din, ub) ==
    /\ sim = "MT" /\ sim_queue[u] # -1
    /\ Becomes(mt_srv(Cur, u, din, ub))
    /\ UNCHANGED << sim, left >>

MtAttach(u, img, ro) ==
    /\ sim = "MT" /\ left > 0 /\ "UNIT_ATT" \notin flags[u]
    /\ Becomes(mt_attach(Cur, u, img, ro))
    /\ left' = left - 1 /\ UNCHANGED sim

MtDetach(u) ==
    /\ sim = "MT" /\ left > 0
    /\ Becomes(mt_detach(Cur, u))
    /\ left' = left - 1 /\ UNCHANGED sim

MtReset ==
    /\ sim = "MT" /\ left > 0
    /\ Becomes(mt_reset(Cur))
    /\ left' = left - 1 /\ UNCHANGED sim

MtIni(u) ==
    /\ sim = "MT" /\ left > 0
    /\ Becomes(mt_ini(Cur, u))
    /\ left' = left - 1 /\ UNCHANGED sim

MtBoot(u) ==
    /\ sim = "MT" /\ left > 0
    /\ Becomes(mt_boot(Cur, u))
    /\ left' = left - 1 /\ UNCHANGED sim

NextMT ==
    \/ \E u \in Units : \E cmd \in StartCmds(u) : \E cnt \in StartCnts(cmd) :
          MtStart(u, cmd, cnt)
    \/ \E u \in Units : \E din \in SrvDins(u), ub \in SrvUbs(u) : MtSrv(u, din, ub)
    \/ \E u \in Units, img \in TapeImages, ro \in BOOLEAN : MtAttach(u, img, ro)
    \/ \E u \in Units : MtDetach(u)
    \/ MtReset
    \/ \E u \in Units : MtIni(u)
    \/ \E u \in Units : MtBoot(u)

SpecMT == InitMT /\ [][NextMT]_vars

(* ======================================================================= *)
(*            SEL-32 8064 high speed disk processor (sel32_hsdp.c)         *)
(* ======================================================================= *)
(* ------------------------ CMD (u3) bits and codes ---------------------- *)
DSK_CMDMSK  == 255
DSK_STAR    == 256
DSK_SEEKING == 4096
DSK_READING == 8192
DSK_WRITING == 16384
DSK_BUSY    == 32768
DSK_INCH    == 0
DSK_WD      == 1
DSK_RD      == 2
DSK_NOP     == 3
DSK_SNS     == 4
DSK_SCK     == 7
DSK_LMR     == 31
DSK_XEZ     == 55

\* the disk's sense bits live in bits 16..23 of SNS (u5); the tape file
\* uses the same names for bits 0..7 of its own sense word
DSK_SNS_CMDREJ  == 8388608
DSK_SNS_INTVENT == 4194304
DSK_SNS_EQUCHK  == 1048576

\* hsdp_type[]: the columns the handlers read
Drv(name, nhds, ssiz, spt, cyl) ==
    [ name |-> name, nhds |-> nhds, ssiz |-> ssiz, spt |-> spt, cyl |-> cyl ]
hsdp_type == <<
    Drv("MH040", 5, 256, 16, 400),  Drv("MH080", 5, 256, 16, 800),
    Drv("MH160", 10, 256, 16, 1600), Drv("MH300", 19, 256, 16, 800),
    Drv("MH340", 24, 256, 16, 800), Drv("FH005", 4, 256, 16, 64),
    Drv("CD032", 1, 256, 16, 800),  Drv("CD032", 1, 256, 16, 800),
    Drv("CD064", 1, 256, 16, 800),  Drv("CD064", 3, 256, 16, 800),
    Drv("CD096", 1, 256, 16, 800),  Drv("CD096", 5, 256, 16, 800),
    Drv("MH600", 40, 256, 16, 800), Drv("FM600", 40, 256, 16, 800),
    Drv("FM600", 40, 256, 16, 2) >>

TypeOf(S, u) == hsdp_type[S.dtype[u] + 1]
SSize(S, u)  == TypeOf(S, u).ssiz * 4
TSize(S, u)  == TypeOf(S, u).spt * TypeOf(S, u).ssiz * 4

Byte(x, n) == (x \div (256 ^ n)) % 256
DskCmd(S, u) == BitAnd(S.u3[u], DSK_CMDMSK)
\* uptr->CMD &= ~(0xffff): the model keeps the low 16 bits of CMD
DskClear(S, u) == [S EXCEPT !.u3[u] = 0]

\* main memory as the INCH command reads it: the model's memory is zeroed
MemWord(a) == 0

(* ---------------------------- hsdp_startcmd ---------------------------- *)
RECURSIVE WriteAll(_, _, _)
WriteAll(S, u, bytes) ==
    IF bytes = << >> THEN S
    ELSE WriteAll(chan_write_byte(S, u, Head(bytes)), u, Tail(bytes))

\* lines 450-513: the unit is not attached
HsdpStartOffline(S, u, cmd) ==
    IF cmd = DSK_SNS
    THEN LET W == WriteAll(S, u,
                    << Byte(S.u4[u], 3), Byte(S.u4[u], 2), Byte(S.u4[u], 1),
                       Byte(S.u4[u], 0),
                       Byte(S.u5[u], 3), Byte(S.u5[u], 2), Byte(S.u5[u], 1),
                       Byte(S.u5[u], 0),
                       Byte(S.u6[u], 3), Byte(S.u6[u], 2), Byte(S.u6[u], 1),
                       Byte(S.u6[u], 0), 0, 0 >>)
         IN  Return([W EXCEPT !.u5[u] = Byte(@, 3) * 16777216], u, CED)
    ELSE IF cmd = 0 THEN Return(S, u, CEDU)
    ELSE Return([S EXCEPT !.u5[u] =
                    BitOr(@, DSK_SNS_INTVENT + DSK_SNS_CMDREJ)], u, CEDU)

\* lines 575-581: after the switch
HsdpStartTail(S, u) ==
    IF BitAnd(S.u5[u], 255) # 0 THEN Return(S, u, CEDU)
    ELSE Return(sim_activate(S, u, 20), u, CED)

\* lines 516-574: the unit is online
HsdpStartOnline(S, u, cmd) ==
    CASE cmd = DSK_INCH ->
           LET mema == S.u4[u]
               A == [S EXCEPT !.u4[u] = MemWord(mema \div 4),
                              !.u6 = [i \in Units |->
                                         MemWord((mema \div 4) + i + 1)],
                              !.u3[u] = BitOr(@, DSK_CMDMSK)]
           IN  Return(sim_activate(A, u, 20), u, 0)
      [] cmd \in {DSK_SCK, DSK_XEZ} ->
           Return(sim_activate(
                    [S EXCEPT !.u3[u] = BitOr(BitClr(@, DSK_STAR), cmd)],
                    u, 20), u, 0)
      [] cmd \in {DSK_WD, DSK_RD, DSK_LMR, DSK_NOP} ->
           Return(sim_activate([S EXCEPT !.u3[u] = BitOr(@, cmd)], u, 20),
                  u, 0)
      [] cmd = DSK_SNS ->
           HsdpStartTail(
             sim_activate([S EXCEPT !.u3[u] = BitOr(@, cmd)], u, 20), u)
      [] OTHER -> HsdpStartTail(S, u)

hsdp_startcmd(S0, u, cmd) ==
    LET S   == Enter(S0, "start", u, cmd, S0.u3[u])
        att == "UNIT_ATT" \in S.flags[u]
        A   == IF att THEN S
               ELSE [S EXCEPT !.u5[u] = BitOr(@, DSK_SNS_INTVENT)]
    IN  IF ~att /\ cmd # DSK_SNS THEN Return(A, u, CEDU)
        ELSE IF DskCmd(A, u) # 0
        THEN Return([A EXCEPT !.u3[u] = BitOr(@, DSK_BUSY)], u, SNS_BSY)
        ELSE IF BitAnd(A.u3[u], 65280) # 0 THEN Return(A, u, SNS_BSY)
        ELSE IF ~att THEN HsdpStartOffline(A, u, cmd)
        ELSE HsdpStartOnline(A, u, cmd)

(* ------------------------------ hsdp_srv ------------------------------- *)
\* the file behind the unit: sim_fseek, sim_fread and sim_fwrite of one
\* sector; sim_fread returns the bytes it could read
sim_fseek(S, u, off) == [S EXCEPT !.file[u].pos = off]
FreadLen(S, u, n) ==
    LET rest == S.file[u].size - S.file[u].pos
    IN  IF rest <= 0 THEN 0 ELSE IF rest < n THEN rest ELSE n
sim_fread(S, u, n) == [S EXCEPT !.file[u].pos = @ + FreadLen(S, u, n)]
sim_fwrite(S, u, n) ==
    [S EXCEPT !.file[u].pos = @ + n,
              !.file[u].size = IF @ < S.file[u].pos + n
                               THEN S.file[u].pos + n ELSE @]

\* "we have error, bail out": the three lines every short read repeats
HsdpBail(S, u) ==
    chan_end([DskClear(S, u) EXCEPT
                 !.u5[u] = BitOr(@, DSK_SNS_CMDREJ + DSK_SNS_EQUCHK)],
             u, CEDU)

\* lines 661-713: a seek is under way
HsdpSeeking(S, u) ==
    LET target == S.u4[u] \div 65536
        cyl    == S.ddata[u].cyl
        i      == target - cyl
        max    == TypeOf(S, u).cyl
        Up(n, t)   == LET c == cyl + n
                          A == sim_activate(S, u, t)
                      IN  [A EXCEPT !.ddata[u].cyl =
                                       IF c >= max THEN max - 1 ELSE c]
        \* data->cyl is a uint16: below zero it wraps, and the test
        \* "data->cyl < 0" is never true
        Down(n, t) == LET A == sim_activate(S, u, t)
                      IN  [A EXCEPT !.ddata[u].cyl = (cyl - n) % 65536]
    IN  IF target = cyl
        THEN sim_activate(set_devattn(DskClear(S, u), u, SNS_DEVEND), u, 20)
        ELSE sim_activate(
               IF i > 0
               THEN IF i > 50 THEN Up(50, 800)
                    ELSE IF i > 20 THEN Up(20, 400) ELSE Up(1, 200)
               ELSE IF i < -50 THEN Down(50, 800)
                    ELSE IF i < -20 THEN Down(20, 400) ELSE Down(1, 200),
               u, 2)

\* a variant of the seek that leaves the head out of the file position
HsdpRezeroTrackless(S, u, buf) ==
    LET A   == [S EXCEPT !.u4[u] = buf[1] * 16777216 + buf[2] * 65536
                                   + buf[3] * 256 + buf[4]]
        cyl == A.u4[u] \div 65536
        trk == buf[3]
        ty  == TypeOf(S, u)
    IN  IF cyl > ty.cyl \/ trk >= ty.nhds \/ buf[4] > ty.spt
        THEN chan_end([DskClear(A, u) EXCEPT
                          !.u5[u] = BitOr(@, DSK_SNS_CMDREJ
                                             + DSK_SNS_EQUCHK)], u, CEDU)
        ELSE LET tstart == (cyl * ty.nhds * TSize(S, u))
                           + (buf[4] * 1024)
                 B == [A EXCEPT !.u3[u] = BitOr(@, DSK_STAR),
                                !.ddata[u].tpos = trk,
                                !.ddata[u].spos = buf[4]]
                 C == sim_fseek(B, u, tstart)
             IN  IF trk # C.ddata[u].cyl
                 THEN chan_end(
                        sim_activate(
                          [C EXCEPT !.u3[u] = BitOr(@, DSK_SEEKING)], u, 20),
                        u, SNS_CHNEND)
                 ELSE chan_end(sim_activate(DskClear(C, u), u, 20), u,
                               SNS_DEVEND + SNS_CHNEND)

\* lines 726-780: label rezero, entered with the four address bytes
HsdpRezero(S, u, buf) ==
    LET A   == [S EXCEPT !.u4[u] = buf[1] * 16777216 + buf[2] * 65536
                                   + buf[3] * 256 + buf[4]]
        cyl == A.u4[u] \div 65536
        trk == buf[3]
        ty  == TypeOf(S, u)
    IN  IF cyl > ty.cyl \/ trk >= ty.nhds \/ buf[4] > ty.spt
        THEN chan_end([DskClear(A, u) EXCEPT
                          !.u5[u] = BitOr(@, DSK_SNS_CMDREJ
                                             + DSK_SNS_EQUCHK)], u, CEDU)
        ELSE LET tstart == (cyl * ty.nhds * TSize(S, u))
                           + (trk * TSize(S, u)) + (buf[4] * 1024)
                 B == [A EXCEPT !.u3[u] = BitOr(@, DSK_STAR),
                                !.ddata[u].tpos = trk,
                                !.ddata[u].spos = buf[4]]
                 C == sim_fseek(B, u, tstart)
             IN  IF trk # C.ddata[u].cyl
                 THEN chan_end(
                        sim_activate(
                          [C EXCEPT !.u3[u] = BitOr(@, DSK_SEEKING)], u, 20),
                        u, SNS_CHNEND)
                 ELSE chan_end(sim_activate(DskClear(C, u), u, 20), u,
                               SNS_DEVEND + SNS_CHNEND)

\* lines 717-725: read the four address bytes; a short transfer bails out
\* of the loop only, and each byte not read keeps what its cell of the
\* uninitialised buf[] (line 604) held, ub[i], one cell independent of the other
HsdpSeekNew(S, u, din, ub) ==
    LET n   == S.ccw_cnt[u]
        buf == [i \in 1 .. 4 |-> IF i <= n THEN din[i] ELSE ub[i]]
        A   == chan_read_bytes(S, u, 4)
    IN  HsdpRezero(IF n < 4 THEN HsdpBail(A, u) ELSE A, u, buf)

HsdpSrvSeek(S, u, din, ub) ==
    IF Has(S.u3[u], DSK_SEEKING) THEN HsdpSeeking(S, u)
    ELSE HsdpSeekNew(S, u, din, ub)

\* lines 782-801
HsdpSrvXez(S, u) ==
    LET A == [S EXCEPT !.u4[u] = 0, !.u3[u] = DSK_SCK]
    IN  IF ChanEnd(A, u) THEN HsdpBail(A, u)
        ELSE HsdpRezero(chan_read_byte(A, u), u, << 0, 0, 0, 0 >>)

\* lines 803-817
HsdpSrvLmr(S, u, din) ==
    IF ChanEnd(S, u) THEN HsdpBail(S, u)
    ELSE LET A == chan_read_byte(S, u)
         IN  chan_end([DskClear(A, u) EXCEPT
                          !.u5[u] = (@ % 16777216) + din[1] * 16777216],
                      u, CED)

\* a variant of the sector advance whose head carry is late by one: the
\* head wraps only after it has passed the head count
NextSectorLateCarry(S, u) ==
    LET ty == TypeOf(S, u)
        d  == S.ddata[u]
        s1 == d.spos + 1
    IN  IF s1 < ty.spt THEN << [S EXCEPT !.ddata[u].spos = s1], FALSE >>
        ELSE IF d.tpos + 1 <= ty.nhds
        THEN << [S EXCEPT !.ddata[u].spos = 0, !.ddata[u].tpos = @ + 1],
                FALSE >>
        ELSE << [S EXCEPT !.ddata[u].spos = 0, !.ddata[u].tpos = 0,
                          !.ddata[u].cyl = (@ + 1) % 65536],
                ((d.cyl + 1) % 65536) >= ty.cyl >>

\* data->spos++ and the carries into track and cylinder (lines 855-870,
\* 930-947); the second component tells that the end of the disk was hit
NextSector(S, u) ==
    LET ty == TypeOf(S, u)
        d  == S.ddata[u]
        s1 == d.spos + 1
    IN  IF s1 < ty.spt THEN << [S EXCEPT !.ddata[u].spos = s1], FALSE >>
        ELSE IF d.tpos + 1 < ty.nhds
        THEN << [S EXCEPT !.ddata[u].spos = 0, !.ddata[u].tpos = @ + 1],
                FALSE >>
        ELSE << [S EXCEPT !.ddata[u].spos = 0, !.ddata[u].tpos = 0,
                          !.ddata[u].cyl = (@ + 1) % 65536],
                ((d.cyl + 1) % 65536) >= ty.cyl >>

\* lines 819-883
HsdpSrvRd(S, u) ==
    LET ssize == SSize(S, u)
        A   == [S EXCEPT !.u3[u] = BitOr(@, DSK_READING)]
        len == FreadLen(A, u, ssize)
        B   == sim_fread(A, u, ssize)
    IN  IF len # ssize THEN chan_end(DskClear(B, u), u, CEDU)
        ELSE IF B.ccw_cnt[u] < len
        THEN sim_activate(
               chan_end(DskClear(chan_write_bytes(B, u, len), u), u, CED),
               u, 10)
        ELSE LET C == chan_write_bytes(B, u, len)
                 N == NextSector(C, u)
             IN  IF N[2] THEN chan_end(DskClear(N[1], u), u, CEDU)
                 ELSE sim_activate(
                        IF test_write_byte_end(N[1], u)
                        THEN chan_end(DskClear(N[1], u), u, CED)
                        ELSE N[1], u, 10)

\* lines 885-952
HsdpSrvWd(S, u) ==
    LET ssize == SSize(S, u)
        A == [S EXCEPT !.u3[u] = BitOr(@, DSK_WRITING)]
        n == A.ccw_cnt[u]
    IN  IF n = 0
        THEN sim_activate(chan_end(DskClear(A, u), u, CED), u, 10)
        ELSE LET B == sim_fwrite(chan_read_bytes(A, u, ssize), u, ssize)
             IN  IF n < ssize THEN chan_end(DskClear(B, u), u, CED)
                 ELSE LET N == NextSector(B, u)
                      IN  IF N[2] THEN chan_end(DskClear(N[1], u), u, CEDU)
                          ELSE sim_activate(N[1], u, 10)

\* lines 640-656
HsdpSrvSns(S, u) ==
    LET W == WriteAll(S, u, << Byte(S.u5[u], 0), Byte(S.u5[u], 1), 0, u >>)
    IN  chan_end([W EXCEPT !.u3[u] = BitAnd(@, DSK_CMDMSK)], u, CED)

\* the handler the scheduler calls once the unit has left the event queue;
\* din are the bytes the channel supplies if asked, ub what the four cells
\* of the uninitialised buf[] hold when the call begins
hsdp_srv(S0, u, din, ub) ==
    LET Q   == [S0 EXCEPT !.sim_queue[u] = -1]
        S   == Enter(Q, "srv", u, 0, Q.u3[u])
        cmd == DskCmd(S, u)
        att == "UNIT_ATT" \in S.flags[u]
        T   == IF att THEN S
               ELSE [S EXCEPT !.u5[u] = BitOr(@, DSK_SNS_INTVENT)]
    IN  IF ~att /\ cmd # DSK_SNS THEN T
        ELSE CASE cmd = 0          -> T
               [] cmd = DSK_CMDMSK -> chan_end(DskClear(T, u), u, CED)
               [] cmd = DSK_NOP    -> chan_end(DskClear(T, u), u, CED)
               [] cmd = DSK_SNS    -> HsdpSrvSns(T, u)
               [] cmd = DSK_SCK    -> HsdpSrvSeek(T, u, din, ub)
               [] cmd = DSK_XEZ    -> HsdpSrvXez(T, u)
               [] cmd = DSK_LMR    -> HsdpSrvLmr(T, u, din)
               [] cmd = DSK_RD     -> HsdpSrvRd(T, u)
               [] cmd = DSK_WD     -> HsdpSrvWd(T, u)
               [] OTHER -> chan_end([DskClear(T, u) EXCEPT
                                       !.u5[u] = BitOr(@, DSK_SNS_CMDREJ)],
                                    u, CEDU)

(* ------------------ hsdp_attach, hsdp_detach, hsdp_reset --------------- *)
\* attach_unit opens the file; calloc hands out a zeroed drive data block
hsdp_attach(S0, u, size) ==
    LET S == Enter(S0, "attach", u, 0, S0.u3[u])
        A == [S EXCEPT !.flags[u] = @ \cup {"UNIT_ATT"},
                       !.file[u] = [ pos |-> 0, size |-> size ],
                       !.ddata[u] = [ alloc |-> TRUE, cyl |-> 0,
                                      tpos |-> 0, spos |-> 0 ]]
    IN  set_devattn(A, u, SNS_DEVEND)

hsdp_detach(S0, u) ==
    LET S == Enter(S0, "detach", u, 0, S0.u3[u])
    IN  [DskClear(S, u) EXCEPT !.ddata[u] = NoData,
                               !.flags[u] = @ \ {"UNIT_ATT"},
                               !.file[u] = NoFile]

hsdp_reset(S0) == Enter(S0, "reset", 0, 0, 0)

\* hsdp_ini (lines 967-979), the init function of the device (line 351):
\* command and flags of the unit are cleared; a queued service call stays
hsdp_ini(S0, u) == DskClear(Enter(S0, "ini", u, 0, S0.u3[u]), u)

\* hsdp_set_type (lines 1064-1083), SET TYPE=name: refused on a unit with a
\* file; otherwise the unit becomes the first row of hsdp_type with that name
TypeRows(name) == { i \in 0 .. (Len(hsdp_type) - 1) : hsdp_type[i + 1].name = name }
FirstRow(name) == CHOOSE i \in TypeRows(name) : \A j \in TypeRows(name) : i <= j
hsdp_set_type(S0, u, name) ==
    LET S == Enter(S0, "set_type", u, 0, S0.u3[u])
    IN  IF "UNIT_ATT" \in S.flags[u] \/ TypeRows(name) = {} THEN S
        ELSE [S EXCEPT !.dtype[u] = FirstRow(name)]

(* ---------------------- inputs of the disk model ----------------------- *)
\* command bytes the channel may start on a disk unit: the ones the start
\* entry knows, and one it does not (transfer in channel)
DiskCmds == { DSK_INCH, DSK_WD, DSK_RD, DSK_NOP, DSK_SNS, DSK_SCK, DSK_LMR,
              DSK_XEZ, 8 }
\* the drive every modelled unit is set to before the run (SET TYPE=FH005):
\* 64 cylinders of 4 heads, the smallest geometry a unit can be given
DiskType == 5
DiskCyl == hsdp_type[DiskType + 1].cyl
DiskHds == hsdp_type[DiskType + 1].nhds
\* names the operator may give SET TYPE=: the modelled drive, a name two rows
\* of the table carry, and a name the table does not have
TypeNames == { "FH005", "FM600", "RK05" }
SectorBytes == hsdp_type[DiskType + 1].ssiz * 4
\* the size of a file that holds every sector the geometry addresses.  (The
\* capacity hsdp_attach computes, taus * spau * ssiz * 4, is only printed:
\* a file of any size attaches and no transfer compares with it.)
GeometryBytes == hsdp_type[DiskType + 1].cyl * hsdp_type[DiskType + 1].nhds
                 * hsdp_type[DiskType + 1].spt * SectorBytes
\* seek addresses <<cyl hi, cyl lo, head, sector>> the channel supplies
SeekAddrs == { << 0, 0, 0, 0 >>, << 0, 1, 1, 0 >>, << 0, 1, 0, 0 >>,
               << 0, DiskCyl, 1, 0 >>, << 0, DiskCyl + 1, 0, 0 >>,
               << 0, 0, DiskHds, 0 >> }
\* the addresses a channel program that ends one byte early supplies (the
\* sector byte never arrives)
ShortSeekAddrs == { << 0, 0, 0, 0 >>, << 0, 1, 1, 0 >> }
ModeBytes == { << 0, 0, 0, 0 >>, << 4, 0, 0, 0 >> }
DiskSizes == { 2 * SectorBytes, GeometryBytes }

\* the byte counts the channel program gives a command.  A seek address
\* is SeekBytes long (the loop of line 715); the short count leaves the
\* last cell of buf[] unread.
SeekBytes == 4
DiskCnts(cmd) ==
    CASE cmd = DSK_SCK -> {SeekBytes - 1, SeekBytes}
      [] cmd \in {DSK_LMR, DSK_XEZ} -> {0, 1}
      [] cmd = DSK_SNS -> {0, 4, 14}
      [] cmd \in {DSK_RD, DSK_WD} ->
           {0, 1} \cup { k * SectorBytes : k \in 1 .. MaxSect }
      [] OTHER -> {0}

\* the installations a disk run starts from (unit 0, every other unit):
\* TRUE for a unit with a file attached, and the size of that file
DiskSetups ==
    { << << TRUE, 2 * SectorBytes >>, << FALSE, 0 >> >>,
      << << FALSE, 0 >>, << TRUE, GeometryBytes >> >>,
      << << TRUE, GeometryBytes >>, << TRUE, 2 * SectorBytes >> >> }

InitDiskOf(setups, ops, type) ==
    /\ sim = "DSK"
    /\ \E p \in setups :
          LET c == [u \in Units |-> IF u = 0 THEN p[1] ELSE p[2]]
          IN  /\ flags = [u \in Units |-> IF c[u][1] THEN {"UNIT_ATT"} ELSE {}]
              /\ file = [u \in Units |->
                            IF c[u][1] THEN [ pos |-> 0, size |-> c[u][2] ]
                            ELSE NoFile]
              /\ ddata = [u \in Units |->
                             IF c[u][1]
                             THEN [ alloc |-> TRUE, cyl |-> 0, tpos |-> 0,
                                    spos |-> 0 ]
                             ELSE NoData]
    /\ dtype = [u \in Units |-> type]
    /\ u3 = [u \in Units |-> 0]
    /\ u4 = [u \in Units |-> 0]
    /\ u5 = [u \in Units |-> 0]
    /\ u6 = [u \in Units |-> 0]
    /\ hwmark = [u \in Units |-> 0]
    /\ mt_busy = 0
    /\ mt_buffer = [i \in 0 .. (BufCells - 1) |-> 0]
    /\ tape = [u \in Units |-> << >>]
    /\ pos = [u \in Units |-> 0]
    /\ sim_queue = [u \in Units |-> -1]
    /\ ccw_cnt = [u \in Units |-> 0]
    /\ left = ops
    /\ log = NewLog("init", 0, 0, 0)
    /\ ItmIdle

InitDisk(setups, ops) == InitDiskOf(setups, ops, DiskType)

InitDSK == InitDisk(DiskSetups, MaxOps)

\* the inputs a disk service step can consume
DskDins(u) ==
    IF ccw_cnt[u] = 0 THEN { << 0, 0, 0, 0 >> }
    ELSE IF DskCmd(Cur, u) = DSK_SCK /\ ~Has(u3[u], DSK_SEEKING)
         THEN IF ccw_cnt[u] < SeekBytes THEN ShortSeekAddrs ELSE SeekAddrs
    ELSE IF DskCmd(Cur, u) = DSK_LMR THEN ModeBytes
    ELSE { << 0, 0, 0, 0 >> }
\* what the uninitialised buf[] (line 604) holds when a seek address is
\* read into it: a cell the channel fills is overwritten, a cell it does
\* not fill keeps whatever byte the stack held, any of 0 .. 255, each cell
\* independently of the others.
StackBytes == 0 .. 255
NoStack == << 0, 0, 0, 0 >>
DskUbs(u) ==
    IF DskCmd(Cur, u) = DSK_SCK /\ ~Has(u3[u], DSK_SEEKING) /\ ccw_cnt[u] < 4
    THEN LET cell(i) == IF i <= ccw_cnt[u] THEN {0} ELSE StackBytes
         IN  { << a, b, c, d >> : a \in cell(1), b \in cell(2),
                                  c \in cell(3), d \in cell(4) }
    ELSE { NoStack }

\* the command bytes worth trying on a unit: a unit that is busy or has
\* no file answers before it looks at the byte (except for Sense)
DskIsBusy(u) == BitAnd(u3[u], 65535) # 0
DskStartCmds(u) ==
    IF DskIsBusy(u) THEN {DSK_SNS, DSK_RD}
    ELSE IF "UNIT_ATT" \notin flags[u] THEN {DSK_SNS, DSK_RD, DSK_LMR}
    ELSE DiskCmds

DskStart(u, cmd, cnt) ==
    /\ sim = "DSK" /\ left > 0
    /\ Becomes(ChanStarted(hsdp_startcmd(ChanLoad(Cur, u, cnt), u, cmd),
                           Cur, u))
    /\ left' = left - 1 /\ UNCHANGED sim

DskSrv(u, din, ub) ==
    /\ sim = "DSK" /\ sim_queue[u] # -1
    /\ Becomes(hsdp_srv(Cur, u, din, ub))
    /\ UNCHANGED << sim, left >>

DskAttach(u, size) ==
    /\ sim = "DSK" /\ left > 0 /\ "UNIT_ATT" \notin flags[u]
    /\ Becomes(hsdp_attach(Cur, u, size))
    /\ left' = left - 1 /\ UNCHANGED sim

DskDetach(u) ==
    /\ sim = "DSK" /\ left > 0
    /\ Becomes(hsdp_detach(Cur, u))
    /\ left' = left - 1 /\ UNCHANGED sim

DskReset ==
    /\ sim = "DSK" /\ left > 0
    /\ Becomes(hsdp_reset(Cur))
    /\ left' = left - 1 /\ UNCHANGED sim

DskIni(u) ==
    /\ sim = "DSK" /\ left > 0
    /\ Becomes(hsdp_ini(Cur, u))
    /\ left' = left - 1 /\ UNCHANGED sim

DskSetType(u, name) ==
    /\ sim = "DSK" /\ left > 0
    /\ Becomes(hsdp_set_type(Cur, u, name))
    /\ left' = left - 1 /\ UNCHANGED sim

\* the drives are independent of each other (only INCH writes the
\* attributes of all of them), so the host drives the first NumDisks units
Disks == { u \in Units : u < NumDisks }

NextDSK ==
    \/ \E u \in Disks : \E cmd \in DskStartCmds(u) : \E cnt \in DiskCnts(cmd) :
          DskStart(u, cmd, cnt)
    \/ \E u \in Disks :
          /\ sim = "DSK"
          /\ \E din \in DskDins(u), ub \in DskUbs(u) : DskSrv(u, din, ub)
    \/ \E u \in Disks, size \in DiskSizes : DskAttach(u, size)
    \/ \E u \in Disks : DskDetach(u)
    \/ DskReset
    \/ \E u \in Disks : DskIni(u)
    \/ \E u \in Disks, name \in TypeNames : DskSetType(u, name)

SpecDSK == InitDSK /\ [][NextDSK]_vars

(* ----------------- the two simulators, one or the other ---------------- *)
Init == InitMT \/ InitDSK
Next == NextMT \/ NextDSK
Spec == Init /\ [][Next]_vars

(* ======================================================================= *)
(*                         properties of the handlers                      *)
(* ======================================================================= *)
\* the command installed on a unit, the one it had when the last operation
\* was entered, and whether a callback is pending for it
Installed(u) == IF sim = "MT" THEN BitAnd(u3[u], MT_CMDMSK)
                ELSE BitAnd(u3[u], DSK_CMDMSK)
PreInstalled == IF sim = "MT" THEN BitAnd(log.pre, MT_CMDMSK)
                ELSE BitAnd(log.pre, DSK_CMDMSK)
Pending(u) == sim_queue[u] # -1
\* the last operation posted a completion carrying DEVICE-END
PostedTerminal ==
    \E i \in 1 .. Len(log.posts) : Has(log.posts[i][2], SNS_DEVEND)

\* C1: a service step entered with a command installed either keeps the
\* command with a callback pending and posts no terminal completion, or
\* posts a terminal completion and leaves no command installed.
C1_ServiceStepContract ==
    (log.op = "srv" /\ PreInstalled # 0) =>
        \/ Installed(log.u) # 0 /\ Pending(log.u) /\ ~PostedTerminal
        \/ Installed(log.u) = 0 /\ PostedTerminal

\* C2: only a service callback can bring an installed command to its
\* completion, so a command that is to complete eventually always has one
\* pending: no reachable state holds a unit with a command installed and
\* nothing scheduled for it.
C2_InstalledCommandCanComplete ==
    \A u \in Units : Installed(u) # 0 => Pending(u)

\* C3: a unit has at most one callback pending, so no start or service
\* step asks the scheduler for a callback on a unit that still has one
\* pending.
C3_NoScheduleWhilePending ==
    log.op \in {"start", "srv"} => ~log.dbl

\* the retry marker of a unit, and the registers without it
RetryMarked(f, c, u) == IF sim = "MT" THEN "MT_BUSY" \in f[u]
                        ELSE Has(c[u], DSK_BUSY)
Unmarked(f, c) == IF sim = "MT"
                  THEN << [u \in Units |-> f[u] \ {"MT_BUSY"}], c >>
                  ELSE << f, [u \in Units |-> BitClr(c[u], DSK_BUSY)] >>

\* C4: a start that answers Busy sets the unit's retry marker and changes
\* nothing else: command, phase, cursor, sense, controller busy flag and
\* pending callbacks stay as they were.
C4_BusyChangesOnlyMarker ==
    [][ (log'.op = "start" /\ log'.rc = SNS_BSY) =>
            /\ RetryMarked(flags', u3', log'.u)
            /\ Unmarked(flags', u3') = Unmarked(flags, u3)
            /\ UNCHANGED << u4, u5, u6, hwmark, mt_busy, mt_buffer,
                            sim_queue >> ]_vars

(* ------------- the buffer lease of the tape controller ---------------- *)
\* two mounted 9-track drives, driven with a data command and a rewind,
\* and an operator who dismounts and mounts volumes
LeaseSetups == { << Drive(TRUE, TRUE, FALSE, << <<1, 65>> >>),
                    Drive(TRUE, TRUE, FALSE, << <<1, 65>> >>) >> }
LeaseCmds == { MT_READ, MT_REW }
InitLease == InitTape(LeaseSetups, LeaseOps)
NextLease ==
    \/ \E u \in Units, cmd \in LeaseCmds : MtStart(u, cmd, 1)
    \/ \E u \in Units : MtSrv(u, 0, 0)
    \/ \E u \in Units : MtAttach(u, << <<1, 65>> >>, FALSE)
    \/ \E u \in Units : MtDetach(u)
SpecLease == InitLease /\ [][NextLease]_vars

UsesBuffer(u) ==
    BitAnd(u3[u], MT_CMDMSK) \in {MT_READ, MT_RDBK, MT_WRITE, MT_SENSE}

\* C5: the controller's buffer is leased to one unit at a time: never do
\* two units hold an installed buffer-using command (Read, Read-Backward,
\* Write, Sense) together.
C5_OneBufferUser ==
    \A u, v \in Units : (UsesBuffer(u) /\ UsesBuffer(v)) => u = v

\* C6: a detach of a unit with a command installed clears the command and
\* the phase and leaves no callback pending for the unit; a reset leaves
\* no unit with a command installed.
C6_DetachResetCancel ==
    /\ (log.op = "detach" /\ PreInstalled # 0) =>
           /\ Installed(log.u) = 0 /\ u4[log.u] = 0
           /\ ~Pending(log.u)
    /\ log.op = "reset" => \A u \in Units : Installed(u) = 0

\* a command byte the device does not support, or not in the unit's mode
InvalidFor(u, cmd) ==
    IF sim = "MT"
    THEN \/ cmd % 16 \in {5, 6, 8, 9, 10, 13, 14}
         \/ /\ cmd % 16 \in {3, 11} /\ "MTUF_9TR" \notin flags[u]
            /\ BitAnd(cmd, MT_MDEN_MSK) = MT_MDEN_MSK
    ELSE cmd \notin { DSK_INCH, DSK_WD, DSK_RD, DSK_NOP, DSK_SNS, DSK_SCK,
                      DSK_LMR, DSK_XEZ }
CommandRejected(u) == IF sim = "MT" THEN Has(u5[u], SNS_CMDREJ)
                      ELSE Has(u5[u], DSK_SNS_CMDREJ)

\* C7: an invalid command started on an idle attached unit sets
\* command-reject in the sense data, returns CE|DE|UC, installs nothing
\* and schedules nothing.
C7_InvalidCommandRejected ==
    ( /\ log.op = "start" /\ log.pre = 0 /\ log.rc # SNS_BSY
      /\ "UNIT_ATT" \in flags[log.u] /\ InvalidFor(log.u, log.cmd) ) =>
        /\ log.rc = CEDU
        /\ CommandRejected(log.u)
        /\ Installed(log.u) = 0
        /\ log.sched = 0

Attached(u) == "UNIT_ATT" \in flags[u]
\* the sense word a start builds from the drive as it stands
DriveSense(u) ==
    Shl8(SNS_TUASTA
         + (IF "MTUF_9TR" \in flags[u] THEN 0 ELSE SNS_7TRACK)
         + (IF "UNIT_RO" \in flags[u] THEN SNS_WRP ELSE 0)
         + (IF pos[u] = 0 THEN SNS_LOAD ELSE 0))
TapeStartOf(nibs) ==
    sim = "MT" /\ log.op = "start" /\ log.rc # SNS_BSY /\ log.cmd % 16 \in nibs

\* C8: a tape motion, read, read-backward or write command started on an
\* idle unit with the buffer free snapshots the drive's sense bits, is
\* installed, sets the buffer-empty sentinel, zeroes the cursor and the
\* pack register, takes the buffer, schedules one service event and posts
\* nothing; it returns 0 for the data commands and CHANNEL-END alone for
\* the motion commands.
C8_TapeStartInstalls ==
    TapeStartOf({MT_WRITE, MT_READ, MT_RDBK, 7, 15}) =>
        /\ u5[log.u] = DriveSense(log.u)
        /\ Installed(log.u) = BitAnd(log.cmd, MT_CMDMSK)
        /\ hwmark[log.u] = HWMARK_EMPTY
        /\ u4[log.u] = 0 /\ u6[log.u] = 0
        /\ mt_busy = 1
        /\ log.sched = 1 /\ Pending(log.u)
        /\ log.posts = << >>
        /\ log.rc = IF log.cmd % 8 = 7 THEN SNS_CHNEND ELSE 0
\* C8 as the specification words it: every such start returns a status
\* without any completion flag
C8_StartReturnsNoFlags ==
    TapeStartOf({MT_WRITE, MT_READ, MT_RDBK, 7, 15}) => log.rc = 0
C8_MotionStarted ==
    /\ TapeStartOf({7, 15}) /\ log.rc = SNS_CHNEND
    /\ Installed(log.u) = log.cmd /\ Pending(log.u)

\* the parity, translator and converter bits a 7-track mode set selects
\* with its sub-code (bits 3-5 of the command byte)
SubCodeMode(sel) ==
    CASE sel = 2 -> MT_ODD + MT_CONV
      [] sel = 4 -> 0
      [] sel = 5 -> MT_TRANS
      [] sel = 6 -> MT_ODD
      [] sel = 7 -> MT_ODD + MT_TRANS
      [] OTHER   -> 0
\* the start just made on unit u left the scheduler, the buffer and the
\* command installed on the unit alone and posted nothing
EndedInStart(u) ==
    /\ log'.sched = 0 /\ log'.posts = << >>
    /\ sim_queue' = sim_queue /\ mt_busy' = mt_busy
    /\ LET msk == IF sim = "MT" THEN MT_CMDMSK ELSE DSK_CMDMSK
       IN  BitAnd(u3'[u], msk) = BitAnd(u3[u], msk)

C10_SenseWithoutVolume ==
    [][ LET u == log'.u
        IN
        /\ ( /\ sim = "MT" /\ log'.op = "start" /\ log'.cmd = MT_SENSE
             /\ MtCmd(Cur, u) = 0 ) =>
               IF mt_busy = 0
               THEN /\ log'.rc = 0 /\ BitAnd(u3'[u], MT_CMDMSK) = MT_SENSE
                    /\ log'.sched = 1 /\ sim_queue'[u] # -1
                    /\ mt_busy' = 1 /\ log'.posts = << >>
               ELSE /\ log'.rc = SNS_BSY /\ u3'[u] = u3[u]
                    /\ log'.sched = 0 /\ sim_queue' = sim_queue
                    /\ "MT_BUSY" \in flags'[u]
        /\ ( /\ sim = "MT" /\ log'.op = "srv" /\ MtCmd(Cur, u) = MT_SENSE
             /\ ~Attached(u) ) =>
               /\ log'.posts = << << "chan_end", CED >> >>
               /\ BitAnd(u3'[u], MT_CMDMSK) = 0
               /\ Len(log'.wr) = 6 /\ Has(log'.wr[1], SNS_INTVENT)
        /\ ( /\ sim = "DSK" /\ log'.op = "start" /\ log'.cmd = DSK_SNS
             /\ u3[u] = 0 ) =>
               IF Attached(u)
               THEN /\ log'.rc = CED /\ u3'[u] = DSK_SNS
                    /\ sim_queue'[u] # -1
               ELSE /\ log'.rc = CED /\ u3'[u] = 0
                    /\ Len(log'.wr) = 14
                    /\ Has(log'.wr[6], Byte(DSK_SNS_INTVENT, 2))
      ]_vars
\* C10 as the specification words it: a Sense started on an idle unit is
\* accepted, and on a unit without a volume it completes with CE|DE and
\* sense data that carry intervention-required
C10_SenseAcceptedWhenIdle ==
    /\ ( /\ sim = "MT" /\ log.op = "start" /\ log.cmd = MT_SENSE
         /\ log.pre = 0 ) =>
           /\ log.rc = 0 /\ Installed(log.u) = MT_SENSE /\ Pending(log.u)
    /\ ( /\ sim = "MT" /\ log.op = "srv" /\ log.pre = MT_SENSE
         /\ ~Attached(log.u) ) =>
           /\ log.posts = << << "chan_end", CED >> >>
           /\ Installed(log.u) = 0
           /\ Len(log.wr) = 6 /\ Has(log.wr[1], SNS_INTVENT)
    /\ ( /\ sim = "DSK" /\ log.op = "start" /\ log.cmd = DSK_SNS
         /\ log.pre = 0 ) =>
           IF Attached(log.u)
           THEN log.rc = CED /\ Installed(log.u) = DSK_SNS /\ Pending(log.u)
           ELSE /\ log.rc = CED /\ Installed(log.u) = 0
                /\ Len(log.wr) = 14
                /\ Has(log.wr[6], Byte(DSK_SNS_INTVENT, 2))
\* an idle unit was refused a Sense because the buffer was held
C10_IdleUnitRefused ==
    /\ sim = "MT" /\ log.op = "start" /\ log.cmd = MT_SENSE
    /\ log.pre = 0 /\ log.rc = SNS_BSY
C10_TapeSenseServedUnmounted ==
    /\ sim = "MT" /\ log.op = "srv" /\ log.pre = MT_SENSE
    /\ ~Attached(log.u) /\ log.acc >= 1
    /\ log.posts = << << "chan_end", CED >> >>

\* a tape command that moves the tape or data, a disk command that moves
\* the arm or data
MovesOrTransfers(cmd) ==
    IF sim = "MT" THEN cmd % 16 \in {MT_WRITE, MT_READ, MT_RDBK, 7, 15}
    ELSE cmd \in {DSK_SCK, DSK_XEZ, DSK_RD, DSK_WD}
InterventionRequired(u) == IF sim = "MT" THEN Has(u5[u], SNS_INTVENT)
                           ELSE Has(u5[u], DSK_SNS_INTVENT)

\* C11: a motion or data command started on an idle unit without a volume
\* ends in its start: the status returned carries UNIT-CHECK,
\* intervention-required is set in the sense data, no command is
\* installed, the buffer is not taken and no service event is scheduled.
C11_UnattachedStartChecks ==
    ( /\ log.op = "start" /\ log.rc # SNS_BSY /\ PreInstalled = 0
      /\ ~Attached(log.u) /\ MovesOrTransfers(log.cmd) ) =>
        /\ log.rc # -1 /\ Has(log.rc, SNS_UNITCHK)
        /\ InterventionRequired(log.u)
        /\ Installed(log.u) = 0
        /\ mt_busy = 0
        /\ log.sched = 0

\* the operation recorded in lg was the completion of a Sense command
SenseCompleted(lg, f) ==
    \/ sim = "MT" /\ lg.op = "srv" /\ lg.pre = MT_SENSE
    \/ sim = "DSK" /\ lg.op = "srv" /\ BitAnd(lg.pre, DSK_CMDMSK) = DSK_SNS
    \/ /\ sim = "DSK" /\ lg.op = "start" /\ lg.cmd = DSK_SNS
       /\ "UNIT_ATT" \notin f[lg.u] /\ lg.rc = CED
\* the error-class bytes of a sense word: tape bytes 0 and 3 (kept in bits
\* 0-7 and 16-23 of u5), disk status bytes 1-3 (bits 0-23 of SNS)
ErrorBytes(w) == IF sim = "MT" THEN << w % 256, (w \div 65536) % 256 >>
                 ELSE << w % 16777216 >>
NoErrors == IF sim = "MT" THEN << 0, 0 >> ELSE << 0 >>
\* the persistent configuration: tape mode bits of u3, disk mode register
Configuration(c, w, u) == IF sim = "MT" THEN BitAnd(c[u], ModeBits)
                          ELSE Byte(w[u], 3)

\* C12: when a Sense command completes, the sense bytes were offered to
\* the channel (6 by the tape, 4 by the disk service, 14 by the disk start
\* of a drive without a file), the error-class sense bytes of the unit are
\* zero, and the persistent configuration is what it was.
C12_SenseClearsErrorBytes ==
    [][ SenseCompleted(log', flags') =>
            /\ Len(log'.wr) \in {4, 6, 14}
            /\ ErrorBytes(u5'[log'.u]) = NoErrors
            /\ Configuration(u3', u5', log'.u) = Configuration(u3, u5, log'.u)
      ]_vars

\* the sense bytes offered to the channel show command-reject: bit 0x80 of
\* the first tape sense byte, bit 0x80 of disk status byte 1, which is the
\* sixth byte of the disk's sense data
RejectReported(wr) ==
    IF sim = "MT" THEN Len(wr) >= 1 /\ Has(wr[1], SNS_CMDREJ)
    ELSE Len(wr) >= 6 /\ Has(wr[6], Byte(DSK_SNS_CMDREJ, 2))

RejectIn(w) == IF sim = "MT" THEN Has(w, SNS_CMDREJ)
               ELSE Has(w, DSK_SNS_CMDREJ)

\* C13: a Sense that completes on a unit whose sense data holds
\* command-reject transfers the bit set and leaves it clear in the unit, so
\* that the Sense after it transfers it clear.
C13_SenseReportsThenClearsReject ==
    [][ (SenseCompleted(log', flags') /\ RejectIn(u5[log'.u])) =>
            /\ RejectReported(log'.wr)
            /\ ~RejectIn(u5'[log'.u]) ]_vars

\* the error-class bits of a sense word, and the operations that are not
\* the dispatch or the service of a Sense
ErrorBits(w) == IF sim = "MT" THEN BitAnd(w % 256, 255) + 65536 * ((w \div 65536) % 256)
                ELSE w % 16777216
KeepsBits(old, new) ==
    \A k \in 0 .. 23 : ((old \div (2 ^ k)) % 2 = 1) => ((new \div (2 ^ k)) % 2 = 1)
NotSense(lg) ==
    \/ lg.op = "start" /\ (IF sim = "MT" THEN lg.cmd % 16 # MT_SENSE
                                          ELSE lg.cmd # DSK_SNS)
    \/ lg.op = "srv" /\ (IF sim = "MT" THEN lg.pre % 16 # MT_SENSE
                                        ELSE BitAnd(lg.pre, DSK_CMDMSK) # DSK_SNS)

\* C14: the dispatch or the service of a command other than Sense clears
\* no error sense bit of its unit that was set before it.
C14_ErrorBitsPersist ==
    [][ NotSense(log') =>
            KeepsBits(ErrorBits(u5[log'.u]), ErrorBits(u5'[log'.u])) ]_vars

\* every completion status (one carrying DEVICE-END) that the last
\* operation returned or posted carries UNIT-CHECK
CompletionsChecked ==
    /\ (log.rc # -1 /\ Has(log.rc, SNS_DEVEND)) => Has(log.rc, SNS_UNITCHK)
    /\ \A i \in 1 .. Len(log.posts) :
          Has(log.posts[i][2], SNS_DEVEND) => Has(log.posts[i][2], SNS_UNITCHK)

\* C15: when the dispatch or a service step of a command other than Sense
\* leaves an error-class sense bit set on its unit, every completion
\* status it returned or posted includes UNIT-CHECK.
C15_ErrorsForceUnitCheck ==
    (NotSense(log) /\ ErrorBits(u5[log.u]) # 0) => CompletionsChecked

(* ---------------------- long seeks on a large drive -------------------- *)
\* one attached drive of the first type of the table (400 cylinders, 5
\* heads), driven with seeks to cylinders far from and near to the cursor
SeekType == 0
SeekSetups == { << << TRUE, 2 * SectorBytes >>, << FALSE, 0 >> >> }
SeekTargets == { << 0, 120, 1, 0 >>, << 0, 0, 1, 0 >>, << 0, 20, 1, 0 >>,
                 << 0, 21, 2, 0 >>, << 0, 1, 1, 0 >>, << 0, 120, 3, 5 >> }
InitSeek == InitDiskOf(SeekSetups, SeekOps, SeekType)
NextSeek ==
    \/ DskStart(0, DSK_SCK, SeekBytes)
    \/ \E din \in (IF Has(u3[0], DSK_SEEKING) THEN { << 0, 0, 0, 0 >> }
                   ELSE SeekTargets) : DskSrv(0, din, NoStack)
SpecSeek == InitSeek /\ [][NextSeek]_vars

\* a service step of a seek under way that is not yet on the target
\* cylinder: the cylinders still to go before it, and the cursor after it
SeekTarget(u) == u4[u] \div 65536
Remaining(u) == IF SeekTarget(u) >= ddata[u].cyl
                THEN SeekTarget(u) - ddata[u].cyl
                ELSE ddata[u].cyl - SeekTarget(u)
SeekStepOf(lg) ==
    /\ sim = "DSK" /\ lg.op = "srv"
    /\ BitAnd(lg.pre, DSK_CMDMSK) = DSK_SCK /\ Has(lg.pre, DSK_SEEKING)
    /\ Remaining(lg.u) # 0
Band(d) == IF d > 50 THEN 50 ELSE IF d >= 20 THEN 20 ELSE 1

\* C16: a seek step moves the cursor towards the target by 50 cylinders
\* while more than 50 remain, by 20 while 20 to 50 remain, by 1 otherwise.
C16_SeekBands ==
    [][ SeekStepOf(log') =>
          ddata'[log'.u].cyl =
             IF SeekTarget(log'.u) > ddata[log'.u].cyl
             THEN ddata[log'.u].cyl + Band(Remaining(log'.u))
             ELSE ddata[log'.u].cyl - Band(Remaining(log'.u)) ]_vars

\* a service step that read a seek address and accepted it: it posted one
\* status, without UNIT-CHECK
SeekAccepted(lg) ==
    /\ sim = "DSK" /\ lg.op = "srv"
    /\ BitAnd(lg.pre, DSK_CMDMSK) = DSK_SCK /\ ~Has(lg.pre, DSK_SEEKING)
    /\ Len(lg.posts) = 1 /\ ~Has(lg.posts[1][2], SNS_UNITCHK)
\* ... and ended the seek in the same step with CE|DE, without seeking
SeekSynchronous(lg, c) ==
    /\ lg.posts = << << "chan_end", CED >> >>
    /\ BitAnd(c[lg.u], 65535) = 0

\* C17: a seek to a valid target completes in the service step that reads
\* its address, with CE|DE and without entering the seeking state, exactly
\* when the cursor is already on the target cylinder.
C17_SynchronousIffOnCylinder ==
    [][ SeekAccepted(log') =>
          ( (u4'[log'.u] \div 65536 = ddata[log'.u].cyl)
              <=> SeekSynchronous(log', u3') ) ]_vars

\* a service step that read a full four-byte seek address (it is in STAR
\* afterwards), and the address lies outside the drive's geometry
SeekAddressRead(lg, cnt) ==
    /\ sim = "DSK" /\ lg.op = "srv" /\ "UNIT_ATT" \in flags[lg.u]
    /\ BitAnd(lg.pre, DSK_CMDMSK) = DSK_SCK /\ ~Has(lg.pre, DSK_SEEKING)
    /\ cnt[lg.u] >= 4
BeyondGeometry(star, ty) ==
    \/ star \div 65536 >= ty.cyl
    \/ (star \div 256) % 256 >= ty.nhds
    \/ star % 256 >= ty.spt

\* C18: a seek to an address beyond the geometry of the drive's type
\* (cylinder, head or sector not below the type's counts) ends with
\* CE|DE|UC, sets command-reject and equipment-check, and leaves the
\* cursor where it was.
C18_SeekBeyondGeometryRejected ==
    [][ ( /\ SeekAddressRead(log', ccw_cnt)
          /\ BeyondGeometry(u4'[log'.u], hsdp_type[dtype[log'.u] + 1]) ) =>
            /\ log'.posts = << << "chan_end", CEDU >> >>
            /\ Has(u5'[log'.u], DSK_SNS_CMDREJ)
            /\ Has(u5'[log'.u], DSK_SNS_EQUCHK)
            /\ ddata'[log'.u] = ddata[log'.u] ]_vars

\* a status with DEVICE-END and no UNIT-CHECK among those just posted
DeviceEndPosted(lg) ==
    \E i \in 1 .. Len(lg.posts) :
        Has(lg.posts[i][2], SNS_DEVEND) /\ ~Has(lg.posts[i][2], SNS_UNITCHK)

\* C19: the step that accepts a seek to another cylinder posts
\* CHANNEL-END alone and goes seeking; a seek posts DEVICE-END only with
\* the cursor on the target cylinder, and a seek under way posts it
\* through set_devattn.
C19_ChannelEndThenDeviceEnd ==
    [][ /\ ( SeekAccepted(log')
             /\ u4'[log'.u] \div 65536 # ddata[log'.u].cyl ) =>
               /\ log'.posts = << << "chan_end", SNS_CHNEND >> >>
               /\ Has(u3'[log'.u], DSK_SEEKING)
        /\ ( /\ sim = "DSK" /\ log'.op = "srv"
             /\ BitAnd(log'.pre, DSK_CMDMSK) = DSK_SCK
             /\ DeviceEndPosted(log') ) =>
               /\ ddata'[log'.u].cyl = u4'[log'.u] \div 65536
               /\ Has(log'.pre, DSK_SEEKING) =>
                     log'.posts = << << "set_devattn", SNS_DEVEND >> >>
      ]_vars


(* ------------------ transfers that run off a track --------------------- *)
\* one attached FH005 drive with a full-size file, positioned by
\* seeks to the last sectors of a track, a cylinder and the volume, then
\* read, written or rezeroed for less than one, one or two sectors
XferSetups == { << << TRUE, GeometryBytes >>, << FALSE, 0 >> >> }
XferTargets == { << 0, 0, 0, 15 >>, << 0, 0, DiskHds - 1, 15 >>,
                 << 0, DiskCyl - 1, DiskHds - 1, 15 >>,
                 << 0, DiskCyl - 1, DiskHds - 1, 14 >>, << 0, 0, 0, 0 >> }
XferCnts(cmd) == IF cmd = DSK_SCK THEN {SeekBytes}
                 ELSE {1, SectorBytes, 2 * SectorBytes}
InitXfer == InitDisk(XferSetups, XferOps)
NextXfer ==
    \/ \E cmd \in {DSK_SCK, DSK_RD, DSK_WD, DSK_XEZ} :
          \E cnt \in XferCnts(cmd) :
          DskStart(0, cmd, cnt)
    \/ \E din \in (IF DskCmd(Cur, 0) = DSK_SCK /\ ~Has(u3[0], DSK_SEEKING)
                   THEN XferTargets ELSE { << 0, 0, 0, 0 >> }) :
          DskSrv(0, din, NoStack)
SpecXfer == InitXfer /\ [][NextXfer]_vars

\* the step just taken served a Read or a Write of an attached drive
XferStep(lg, f) ==
    /\ sim = "DSK" /\ lg.op = "srv"
    /\ BitAnd(lg.pre, DSK_CMDMSK) \in {DSK_RD, DSK_WD}
    /\ "UNIT_ATT" \in f[lg.u]
\* what the step is about to move is a whole sector: the file holds one
\* at its position (Read) and the channel takes or gives that many bytes
FullSector(c3, u) ==
    LET ss == hsdp_type[dtype[u] + 1].ssiz * 4
    IN  /\ ccw_cnt[u] >= ss
        /\ BitAnd(c3, DSK_CMDMSK) = DSK_RD => file[u].size - file[u].pos >= ss
\* the next sector in order
Advanced(d, ty) ==
    IF d.spos + 1 < ty.spt THEN [d EXCEPT !.spos = @ + 1]
    ELSE IF d.tpos + 1 < ty.nhds THEN [d EXCEPT !.spos = 0, !.tpos = @ + 1]
    ELSE [d EXCEPT !.spos = 0, !.tpos = 0, !.cyl = @ + 1]

\* C20: a Read or Write step moves at most one sector; after a whole
\* sector the cursor is on the next sector in order (sector, then head,
\* then cylinder, each wrapping to 0), otherwise it stays; when that
\* carries the cursor onto a cylinder past the last one the step posts
\* CHANNEL-END|DEVICE-END|UNIT-CHECK, clears the command and schedules
\* nothing, and when it does not the step posts no unit check.
C20_SectorPerStepAndAdvance ==
    [][ XferStep(log', flags') =>
          LET u  == log'.u
              ty == hsdp_type[dtype[u] + 1]
              ss == ty.ssiz * 4
          IN  /\ file'[u].pos - file[u].pos \in {0, ss}
              /\ log'.acc <= ss
              /\ IF FullSector(log'.pre, u)
                 THEN /\ ddata'[u] = Advanced(ddata[u], ty)
                      /\ file'[u].pos = file[u].pos + ss
                      /\ IF /\ ddata'[u].cyl # ddata[u].cyl
                            /\ ddata'[u].cyl >= ty.cyl
                         THEN /\ log'.posts = << << "chan_end", CEDU >> >>
                              /\ u3'[u] = 0
                              /\ sim_queue'[u] = -1
                         ELSE \A i \in 1 .. Len(log'.posts) :
                                 ~Has(log'.posts[i][2], SNS_UNITCHK)
                 ELSE ddata'[u] = ddata[u]
      ]_vars

\* a transfer has just run off the last cylinder of the volume
C20_RanOffTheVolume ==
    /\ XferStep(log, flags)
    /\ ddata[log.u].cyl = hsdp_type[dtype[log.u] + 1].cyl
    /\ ddata[log.u].tpos = 0 /\ ddata[log.u].spos = 0
    /\ log.posts = << << "chan_end", CEDU >> >>


\* the step just taken served a Rezero / Read-IPL of an attached drive
\* whose channel had room for data
RezeroStep(lg, f) ==
    /\ sim = "DSK" /\ lg.op = "srv"
    /\ BitAnd(lg.pre, DSK_CMDMSK) = DSK_XEZ
    /\ "UNIT_ATT" \in f[lg.u]
    /\ ccw_cnt[lg.u] > 1

\* C21: a Rezero / Read-IPL step sets the target address and the cursor's
\* head and sector to 0, completes the seek at once exactly when the
\* cursor is on cylinder 0 and goes seeking otherwise, and does not end
\* the command before the read of sector (0,0,0) has sent data: when it
\* posts DEVICE-END, bytes have gone to the channel or a Read is under way.
C21_RezeroSeeksThenReads ==
    [][ RezeroStep(log', flags') =>
          LET u == log'.u
          IN  /\ u4'[u] = 0
              /\ ddata'[u].tpos = 0 /\ ddata'[u].spos = 0
              /\ Has(u3'[u], DSK_SEEKING) <=> ddata[u].cyl # 0
              /\ DeviceEndPosted(log') =>
                    \/ log'.acc > 0
                    \/ BitAnd(u3'[u], DSK_CMDMSK) = DSK_RD
      ]_vars


(* ------------------------- tape media conditions ----------------------- *)
\* the step just taken served command cmd on a mounted tape unit
TapeStep(lg, c3, f, cmd) ==
    /\ sim = "MT" /\ lg.op = "srv"
    /\ BitAnd(c3[lg.u], MT_CMDMSK) = cmd
    /\ "UNIT_ATT" \in f[lg.u]
\* the step has to fetch a record: no drain under way, nothing buffered
Fetches(u) == ~Has(u3[u], MT_READDONE) /\ hwmark[u] = HWMARK_EMPTY
\* what lies at the head, forward and backward
MarkAhead(u)  == pos[u] < Len(tape[u]) /\ tape[u][pos[u] + 1] = << >>
MarkBehind(u) == pos[u] > 0 /\ tape[u][pos[u]] = << >>
MediumEnds(u) == pos[u] >= Len(tape[u])
Protected(u)  == "UNIT_RO" \in flags[u]
UnitException == << << "chan_end", SNS_CHNEND + SNS_DEVEND + SNS_UNITEXP >> >>

\* C22: a Read or Read Backward that fetches a tape mark ends with
\* CHANNEL-END|DEVICE-END|UNIT-EXCEPTION; a Read that fetches at the end
\* of the medium ends with the same status and equipment check in sense;
\* a Write, Write Tape Mark or Erase Gap served on a write-protected
\* volume sets command reject, posts a status with UNIT-CHECK, ends the
\* command and leaves the volume as it was.
C22_MediaConditions ==
    [][ /\ ( \/ TapeStep(log', u3, flags, MT_READ)
                /\ Fetches(log'.u) /\ MarkAhead(log'.u)
             \/ TapeStep(log', u3, flags, MT_RDBK)
                /\ Fetches(log'.u) /\ MarkBehind(log'.u) ) =>
               /\ log'.posts = UnitException
               /\ BitAnd(u3'[log'.u], MT_CMDMSK) = 0
        /\ ( TapeStep(log', u3, flags, MT_READ)
             /\ Fetches(log'.u) /\ MediumEnds(log'.u) ) =>
               /\ log'.posts = UnitException
               /\ Has(u5'[log'.u], SNS_EQUCHK)
               /\ BitAnd(u3'[log'.u], MT_CMDMSK) = 0
        /\ ( /\ \E c \in {MT_WRITE, MT_WTM, MT_ERG} :
                   TapeStep(log', u3, flags, c)
             /\ Protected(log'.u) ) =>
               /\ Has(u5'[log'.u], SNS_CMDREJ)
               /\ Len(log'.posts) = 1
               /\ Has(log'.posts[1][2], SNS_UNITCHK)
               /\ BitAnd(u3'[log'.u], MT_CMDMSK) = 0
               /\ tape' = tape /\ pos' = pos
      ]_vars

\* a Read has just run into the end of the medium
C22_ReadMetEndOfMedium ==
    /\ sim = "MT" /\ log.op = "srv"
    /\ BitAnd(log.pre, MT_CMDMSK) = MT_READ
    /\ log.posts = UnitException
    /\ u5[log.u] = SNS_EQUCHK


(* ------------------ reading a record on a 9-track drive ---------------- *)
\* the record a Read step of unit u works on: the one it is about to
\* fetch, or the one it has buffered and not exhausted
RecordOf(u) ==
    IF hwmark[u] = HWMARK_EMPTY
    THEN IF pos[u] < Len(tape[u]) THEN tape[u][pos[u] + 1] ELSE << >>
    ELSE IF pos[u] > 0 /\ hwmark[u] = Len(tape[u][pos[u]]) /\ u4[u] < hwmark[u]
         THEN tape[u][pos[u]] ELSE << >>
\* a Read step of a mounted 9-track unit that has a record to deliver and
\* a channel that takes the rest of it
Reads9(lg) ==
    /\ TapeStep(lg, u3, flags, MT_READ)
    /\ "MTUF_9TR" \in flags[lg.u]
    /\ ~Has(u3[lg.u], MT_READDONE)
    /\ RecordOf(lg.u) # << >>
    /\ ccw_cnt[lg.u] >= Len(RecordOf(lg.u)) - u4[lg.u]

\* C23: on a 9-track drive, with a channel that takes the whole record,
\* each Read step sends the next byte of the record to the channel; the
\* steps before the last one keep the command and reschedule, and the
\* step that sends the last byte posts CHANNEL-END|DEVICE-END with the
\* error sense bits clear, clears the command and releases the buffer.
C23_ReadDeliversRecord ==
    [][ Reads9(log') =>
          LET u   == log'.u
              rec == RecordOf(u)
          IN  /\ log'.wr = << rec[u4[u] + 1] >>
              /\ log'.acc = 1
              /\ u4'[u] = u4[u] + 1
              /\ IF u4'[u] = Len(rec)
                 THEN /\ log'.posts = << << "chan_end", CED >> >>
                      /\ ErrorBits(u5'[u]) = 0
                      /\ BitAnd(u3'[u], MT_CMDMSK) = 0
                      /\ mt_busy' = 0
                 ELSE /\ log'.posts = << >>
                      /\ BitAnd(u3'[u], MT_CMDMSK) = MT_READ
                      /\ sim_queue'[u] # -1
      ]_vars

\* a 9-track Read has just sent the last byte of a two-byte record and
\* completed
C23_RecordDelivered ==
    /\ sim = "MT" /\ log.op = "srv" /\ log.pre = MT_READ
    /\ "MTUF_9TR" \in flags[log.u]
    /\ pos[log.u] > 0 /\ Len(tape[log.u][pos[log.u]]) = 2
    /\ u4[log.u] = 2 /\ log.wr = << tape[log.u][pos[log.u]][2] >>
    /\ log.posts = << << "chan_end", CED >> >>

\* C23 as written: the Read completes in the step after the last byte,
\* whose transfer attempt finds the channel at the end of its transfer.
C23_CompletesOnEndOfTransfer ==
    ( /\ sim = "MT" /\ log.op = "srv" /\ log.pre = MT_READ
      /\ "MTUF_9TR" \in flags[log.u] /\ "UNIT_ATT" \in flags[log.u]
      /\ log.posts = << << "chan_end", CED >> >>
      /\ ErrorBits(u5[log.u]) = 0 ) =>
        log.acc = 0


\* a status of the last operation carries UNIT-CHECK or UNIT-EXCEPTION
ErrorPosted(lg) ==
    \E i \in 1 .. Len(lg.posts) :
        Has(lg.posts[i][2], SNS_UNITCHK + SNS_UNITEXP)

\* C24: a Read or Read Backward step that ends without error posts
\* CHANNEL-END|DEVICE-END and clears the command; a step that finds the
\* channel at the end of its transfer with the record buffered posts
\* nothing, sets the read-done flag and reschedules; the drain step that
\* follows posts CHANNEL-END|DEVICE-END and clears command and flag.
\* (A transfer attempt shows in the bytes offered to the channel.)
C24_NoCompletionMidRecord ==
    [][ ( \/ TapeStep(log', u3, flags, MT_READ)
          \/ TapeStep(log', u3, flags, MT_RDBK) ) =>
          LET u == log'.u
          IN  /\ (log'.posts # << >> /\ ~ErrorPosted(log')) =>
                    /\ log'.posts = << << "chan_end", CED >> >>
                    /\ BitAnd(u3'[u], MT_CMDMSK + MT_READDONE) = 0
              /\ Has(u3[u], MT_READDONE) =>
                    log'.posts = << << "chan_end", CED >> >>
              /\ ( /\ ~Has(u3[u], MT_READDONE)
                   /\ ccw_cnt[u] = 0 /\ log'.wr # << >>
                   /\ ~ErrorPosted(log') ) =>
                    /\ log'.posts = << >>
                    /\ Has(u3'[u], MT_READDONE)
                    /\ sim_queue'[u] # -1
      ]_vars


\* C25: when the service of a 9-track Write that took bytes from the
\* channel has come to rest (no callback pending for the unit), the bytes
\* stand on the volume as the record before the head, unmodified, so that
\* a Read of that record returns them.
C25_WrittenRecordReadsBack ==
    ( /\ sim = "MT" /\ log.op = "srv" /\ log.pre = MT_WRITE
      /\ "UNIT_ATT" \in flags[log.u] /\ "MTUF_9TR" \in flags[log.u]
      /\ "UNIT_RO" \notin flags[log.u]
      /\ sim_queue[log.u] = -1 ) =>
        /\ pos[log.u] > 0
        /\ Len(tape[log.u][pos[log.u]]) > 0
        /\ \A i \in 1 .. Len(tape[log.u][pos[log.u]]) :
              tape[log.u][pos[log.u]][i] = mt_buffer[i - 1]
        /\ BitAnd(u3[log.u], MT_CMDMSK) = 0


(* ------------------------- 7-track frame parity ------------------------ *)
\* the number of one bits among the low n bits of x
RECURSIVE Ones(_, _)
Ones(x, n) == IF n = 0 THEN 0 ELSE (x % 2) + Ones(x \div 2, n - 1)
\* the frame (6 data bits and the parity bit) agrees with the parity the
\* unit is set to: an odd number of one bits in odd mode, even otherwise
ParityMatches(raw, c3) == (Ones(raw, 7) % 2 = 1) <=> Has(c3, MT_ODD)
DataCheck == Shl16(SNS_VRC) + SNS_DATCHK
\* a Read (back = FALSE) or Read Backward (back = TRUE) step of a mounted
\* 7-track unit that takes a frame out of the buffered record
Reads7(lg, back, h, i) ==
    /\ TapeStep(lg, u3, flags, IF back THEN MT_RDBK ELSE MT_READ)
    /\ "MTUF_9TR" \notin flags[lg.u]
    /\ ~Has(u3[lg.u], MT_READDONE)
    /\ ~ErrorPosted(lg)
    /\ h[lg.u] \in 1 .. BufCells
    /\ i \in 0 .. (h[lg.u] - 1)

\* C26: a 7-track Read or Read Backward step that takes a frame raises
\* data check and VRC when the frame's parity does not match the unit's
\* mode and raises no data check when it matches; without converter and
\* translation the byte offered to the channel is the frame's low 6 bits.
C26_FrameParityChecked ==
    [][ \A back \in BOOLEAN :
          LET u == log'.u
              i == IF back THEN u4'[u] ELSE u4'[u] - 1
          IN  Reads7(log', back, hwmark', i) =>
                LET raw == mt_buffer'[i]
                IN  /\ ~ParityMatches(raw, u3[u]) =>
                          BitAnd(u5'[u], DataCheck) = DataCheck
                    /\ (ParityMatches(raw, u3[u])
                        /\ BitAnd(u5[u], DataCheck) = 0) =>
                          BitAnd(u5'[u], DataCheck) = 0
                    /\ (~Has(u3[u], MT_CONV) /\ ~Has(u3[u], MT_TRANS)) =>
                          /\ log'.wr # << >>
                          /\ log'.wr[1] = raw % 64
      ]_vars


(* -------------------- the 7-track data converter ----------------------- *)
\* a 7-track drive in its initial mode (odd parity, converter on) whose
\* volume holds one record of one group of frames, and a second drive
\* without a volume: the channel reads the record or writes a group of
\* bytes, and the operator may initialise a unit in between
ConvBytes == { 0, 1, 90, 199, 255 }
ConvSetups ==
    { << Drive(FALSE, TRUE, FALSE, << << f1, f2, f3, f4 >> >>),
         Drive(TRUE, FALSE, FALSE, << >>) >> :
      f1 \in {27, 36}, f2 \in {0, 63}, f3 \in {27, 36}, f4 \in {0, 63} }
ConvCmds == { MT_READ, MT_WRITE }
ConvDins(u) == IF MtCmd(Cur, u) = MT_WRITE /\ ccw_cnt[u] > 0
               THEN ConvBytes ELSE {0}
InitConv == InitTape(ConvSetups, MaxOps)
NextConv ==
    \/ \E u \in Units : \E cmd \in ConvCmds : MtStart(u, cmd, GroupBytes)
    \/ \E u \in Units : \E din \in ConvDins(u) : MtSrv(u, din, 0)
    \/ \E u \in Units : MtIni(u)
SpecConv == InitConv /\ [][NextConv]_vars

\* the unit repacks: a 7-track drive with the converter on
ConvOn(u) == Is7Track(Cur, u) /\ Has(u3[u], MT_CONV)

\* the pack register of a unit that reads a record of whole groups: the
\* phase of the group as a tag in its top two bits, 0 exactly when the
\* frames consumed so far are whole groups
ReadKeepsPhase(u) ==
    (MtCmd(Cur, u) = MT_READ /\ ~BUF_EMPTY(Cur, u)
     /\ hwmark[u] % GroupFrames = 0) =>
       /\ (u6[u] = 0) <=> (u4[u] % GroupFrames = 0)
       /\ u6[u] \div 64 = u4[u] % GroupFrames
\* a Write that holds part of a group in the pack register goes on with
\* the group: its next service step is pending
WriteGoesOn(u) ==
    (MtCmd(Cur, u) = MT_WRITE /\ u6[u] # 0) => sim_queue[u] # -1

\* C27: with the data converter on, Read repacks the frames of a record
\* group by group into bytes and Write packs the bytes of the channel group
\* by group into frames, the inverse; the phase of the group is a 2-bit tag
\* in the top bits of the pack register (u6), which is 0 exactly at the
\* group boundaries, and a Write inside a group goes on to finish it.
C27_ConverterInverts ==
    \A u \in Units : ConvOn(u) => ReadKeepsPhase(u) /\ WriteGoesOn(u)


(* ----------------------- the damaged-volume scenario ------------------- *)
\* two 9-track drives with volumes that hold a record the host cannot
\* read, tried with the commands that fetch or space over records
MediaSetups ==
    { << Drive(TRUE, TRUE, FALSE, << <<199>>, Damaged, << >> >>),
         Drive(TRUE, TRUE, FALSE, << Damaged, <<1, 65>> >>) >> }
MediaCmds == { MT_READ, MT_RDBK, MT_FSR, MT_FSF, MT_BSR, MT_BSF }
InitMedia == InitTape(MediaSetups, MediaOps)
NextMedia ==
    \/ \E u \in Units : \E cmd \in MediaCmds : \E cnt \in 1 .. MaxCnt :
          MtStart(u, cmd, cnt)
    \/ \E u \in Units : \E ub \in SrvUbs(u) : MtSrv(u, 0, ub)
SpecMedia == InitMedia /\ [][NextMedia]_vars

\* the record the step is about to fetch or space over is damaged: the
\* media operation of the step answers an I/O error
DamagedAhead(u)  == pos[u] < Len(tape[u]) /\ tape[u][pos[u] + 1] = Damaged
DamagedBehind(u) == pos[u] > 0 /\ tape[u][pos[u]] = Damaged
MediaErrorStep(lg) ==
    LET u == lg.u
    IN  /\ lg.op = "srv" /\ "UNIT_ATT" \in flags[u]
        /\ \/ lg.pre = MT_READ /\ Fetches(u) /\ DamagedAhead(u)
           \/ lg.pre = MT_RDBK /\ Fetches(u) /\ DamagedBehind(u)
           \/ lg.pre \in {MT_FSR, MT_FSF} /\ u4[u] = 1 /\ DamagedAhead(u)
           \/ lg.pre \in {MT_BSR, MT_BSF} /\ u4[u] = 1 /\ DamagedBehind(u)

\* C28: the service step in which the media operation answers an I/O
\* error ends the command, at once or through the closing phase of a space
\* command: either it posts a completion with DEVICE-END, clears the
\* command and the read-done flag and releases the controller busy flag, so
\* that the next start on the unit is taken, or it schedules a phase whose
\* step does just that without touching the medium.
C28_MediaErrorEndsCommand ==
    [][ MediaErrorStep(log') =>
           \/ /\ \E i \in 1 .. Len(log'.posts) :
                    Has(log'.posts[i][2], SNS_DEVEND)
              /\ BitAnd(u3'[log'.u], MT_CMDMSK + MT_READDONE) = 0
              /\ mt_busy' % 2 = 0
           \/ /\ log'.pre \in {MT_FSR, MT_FSF, MT_BSR, MT_BSF}
              /\ sim_queue'[log'.u] # -1
              /\ u4'[log'.u] \in {2, 3, 4} ]_vars

\* C29: once the media operation of a command has answered an error, the
\* unit is not left with the same command installed and a step scheduled
\* that calls the media layer again.
C29_NoRetryAfterMediaError ==
    [][ MediaErrorStep(log') =>
           ~ /\ BitAnd(u3'[log'.u], MT_CMDMSK) = log'.pre
             /\ sim_queue'[log'.u] # -1
             /\ u4'[log'.u] = 1 ]_vars


\* C30: the cursor of every attached disk unit lies inside the geometry of
\* its type: 0 <= cylinder < cylinders, 0 <= head < heads and
\* 0 <= sector < sectors per track.
C30_CursorInsideGeometry ==
    sim = "DSK" =>
       \A u \in Units :
          ("UNIT_ATT" \in flags[u] /\ ddata[u].alloc) =>
             LET ty == hsdp_type[dtype[u] + 1]
             IN  /\ ddata[u].cyl \in 0 .. (ty.cyl - 1)
                 /\ ddata[u].tpos \in 0 .. (ty.nhds - 1)
                 /\ ddata[u].spos \in 0 .. (ty.spt - 1)


(* -------------------------- the geometry scenario ---------------------- *)
\* one attached drive of any type of the table, sent to the corners of
\* what the validity check of Seek accepts, and to one target beyond.
\* The types are the rows SET TYPE= can select: the first row of each name.
DiskTypes == { FirstRow(hsdp_type[i].name) : i \in 1 .. Len(hsdp_type) }
GeomSetups == { << << TRUE, 2 * SectorBytes >>, << FALSE, 0 >> >> }
GeomTargets(t) ==
    LET ty == hsdp_type[t + 1]
    IN  { << c \div 256, c % 256, h, s >> :
             c \in {0, ty.cyl - 1, ty.cyl}, h \in {0, ty.nhds - 1},
             s \in {0, ty.spt - 1, ty.spt} }
        \cup { << (ty.cyl + 1) \div 256, (ty.cyl + 1) % 256, 0, 0 >> }
InitGeom == \E t \in DiskTypes : InitDiskOf(GeomSetups, GeomOps, t)
NextGeom ==
    \/ DskStart(0, DSK_SCK, SeekBytes)
    \/ \E din \in (IF DskCmd(Cur, 0) = DSK_SCK /\ ~Has(u3[0], DSK_SEEKING)
                   THEN GeomTargets(dtype[0]) ELSE { << 0, 0, 0, 0 >> }) :
          DskSrv(0, din, NoStack)
SpecGeom == InitGeom /\ [][NextGeom]_vars

\* the byte offset of a target in a drive of geometry ty
SectorBytesOf(ty) == ty.ssiz * 4
TrackBytesOf(ty)  == ty.spt * SectorBytesOf(ty)
OffsetOf(ty, cyl, head, sector) ==
    (cyl * ty.nhds + head) * TrackBytesOf(ty) + sector * SectorBytesOf(ty)
MaxInt32 == 2147483647

\* C31: the step that accepts a seek target leaves the file positioned at
\* (cylinder * heads + head) * trackBytes + sector * sectorBytes, and that
\* offset fits a signed 32-bit integer, for every type of the table.
C31_SeekOffset ==
    [][ SeekAccepted(log') =>
           LET u    == log'.u
               ty   == hsdp_type[dtype[u] + 1]
               star == u4'[u]
               off  == OffsetOf(ty, star \div 65536, (star \div 256) % 256,
                                star % 256)
           IN  file'[u].pos = off /\ off <= MaxInt32 ]_vars
\* the farthest target of the largest drive has been accepted
C31_FarthestSector ==
    /\ SeekAccepted(log)
    /\ dtype[log.u] = 12
    /\ u4[log.u] = 800 * 65536 + 39 * 256 + 16
    /\ file[log.u].pos = 524943360


(* ------------------------- the unpacking scenario ---------------------- *)
\* a 7-track drive in its initial mode (converter on) whose volume holds
\* one record of four frames, read forward by MT_READ and backward by
\* MT_RDBK for as many bytes as a group gives
UnpackFrames == { 0, 27, 36, 63 }
UnpackSetups ==
    { << Drive(FALSE, TRUE, FALSE, << << f1, f2, f3, f4 >> >>),
         Drive(TRUE, FALSE, FALSE, << >>) >> :
      f1 \in UnpackFrames, f2 \in UnpackFrames, f3 \in {27, 36},
      f4 \in UnpackFrames }
UnpackCmds == { MT_READ, MT_RDBK }
InitUnpack == InitTape(UnpackSetups, MaxOps)
NextUnpack ==
    \/ \E u \in Units : \E cmd \in UnpackCmds : MtStart(u, cmd, GroupBytes)
    \/ \E u \in Units : \E ub \in SrvUbs(u) : MtSrv(u, 0, ub)
SpecUnpack == InitUnpack /\ [][NextUnpack]_vars

\* the bytes that hold the bits of four 6-bit frames, in order
Concat4(f) == << (f[1] * 4 + f[2] \div 16) % 256,
                 ((f[2] % 16) * 16 + f[3] \div 4) % 256,
                 ((f[3] % 4) * 64 + f[4]) % 256 >>
Rev3(b) == << b[3], b[2], b[1] >>
Rev4(f) == << f[4], f[3], f[2], f[1] >>

\* a service step of Read or Read Backward on unit u, converter on and
\* translator off, with a record of one group in the buffer: lg, buf and
\* n4 are the log, the buffer and u4 after the step, r6 the pack register
UnpackStep(u, lg, buf, n4, r6) ==
    LET back == MtCmd(Cur, u) = MT_RDBK
        rec  == [i \in 1 .. GroupFrames |-> buf[i - 1] % 64]
        n    == IF back THEN GroupFrames - n4 ELSE n4
        fr   == IF back THEN rec[n4 + 1] ELSE rec[n4]
    IN  /\ n = 1 => /\ lg.wr = << >> /\ lg.sched = 1
                    /\ r6 = MT_CONV1 + fr
        /\ n > 1 => /\ lg.wr # << >>
                    /\ ~back => lg.wr[1] = Concat4(rec)[n - 1]
                    /\ back => \/ lg.wr[1] = Concat4(Rev4(rec))[n - 1]
                               \/ lg.wr[1] = Rev3(Concat4(rec))[n - 1]

\* C32: the step of a Read or Read Backward at the start of a group offers
\* no byte, reschedules itself and holds the frame with its tag in the pack
\* register; every later step of the group offers the byte that continues
\* the bits of the frames: for a Read the bits of the record's frames
\* concatenated in order, for a Read Backward those of the frames in the
\* order it consumes them, or the bytes of the record in reverse order.
C32_UnpackKeepsBits ==
    [][ \A u \in Units :
          (/\ log'.op = "srv" /\ log'.u = u
           /\ MtCmd(Cur, u) \in UnpackCmds /\ ~Has(u3[u], MT_READDONE)
           /\ ConvOn(u) /\ ~Has(u3[u], MT_TRANS)
           /\ hwmark'[u] = GroupFrames)
          => UnpackStep(u, log', mt_buffer', u4'[u], u6'[u])
      ]_vars


\* the statuses one call of an entry point reports: those it posts and the
\* one it returns
Reported(lg) == [i \in 1 .. Len(lg.posts) |-> lg.posts[i][2]]
                   \o (IF lg.rc > 0 THEN << lg.rc >> ELSE << >>)
Carrying(lg, fl) == { i \in 1 .. Len(Reported(lg)) : Has(Reported(lg)[i], fl) }

\* C33: no call of a start or service entry point reports CHANNEL-END more
\* than once or DEVICE-END more than once for its command.
C33_CompletesOnce ==
    log.op \in {"start", "srv"} =>
       /\ Cardinality(Carrying(log, SNS_CHNEND)) <= 1
       /\ Cardinality(Carrying(log, SNS_DEVEND)) <= 1


\* C34: a unit whose command field is clear has no service callback
\* pending.
C34_NoCallbackWhenIdle ==
    \A u \in Units :
       (IF sim = "MT" THEN BitAnd(u3[u], MT_CMDMSK + MT_READDONE) = 0
        ELSE BitAnd(u3[u], 65535) = 0) => sim_queue[u] = -1


\* C35: whenever a step of a Seek or Rezero reports DEVICE-END without
\* UNIT-CHECK, through chan_end or set_devattn, the cursor of the unit is on
\* the cylinder, head and sector of the target held in STAR (u4).
C35_SeekArrives ==
    (/\ sim = "DSK" /\ log.op = "srv"
     /\ BitAnd(log.pre, DSK_CMDMSK) \in {DSK_SCK, DSK_XEZ}
     /\ "UNIT_ATT" \in flags[log.u]
     /\ DeviceEndPosted(log))
    => /\ ddata[log.u].cyl = u4[log.u] \div 65536
       /\ ddata[log.u].tpos = (u4[log.u] \div 256) % 256
       /\ ddata[log.u].spos = u4[log.u] % 256


\* the distance between two cylinders
Dist(a, b) == IF a >= b THEN a - b ELSE b - a

\* a seek is under way on unit u, off its target cylinder and scheduled
SeekUnderWay(u) ==
    /\ sim = "DSK" /\ "UNIT_ATT" \in flags[u] /\ sim_queue[u] # -1
    /\ DskCmd(Cur, u) = DSK_SCK /\ Has(u3[u], DSK_SEEKING)
    /\ Remaining(u) # 0
\* the cylinder the cursor is on after the service step of unit u
CylAfterStep(u) == hsdp_srv(Cur, u, << 0, 0, 0, 0 >>, NoStack).ddata[u].cyl

\* C36: every staircase step of a seek brings the cursor strictly nearer
\* to the target cylinder and never past it.
C36_SeekConverges ==
    \A u \in Units :
       SeekUnderWay(u) =>
          LET t == SeekTarget(u)
          IN  /\ Dist(t, CylAfterStep(u)) < Dist(t, ddata[u].cyl)
              /\ (ddata[u].cyl < t) => (CylAfterStep(u) <= t)
              /\ (ddata[u].cyl > t) => (CylAfterStep(u) >= t)


\* C37: when every unit of the tape controller is idle, with no command,
\* no drain and no callback pending, the busy flag of the controller is 0.
C37_NoLeaseLeak ==
    (/\ sim = "MT"
     /\ \A u \in Units : /\ BitAnd(u3[u], MT_CMDMSK + MT_READDONE) = 0
                         /\ sim_queue[u] = -1)
    => mt_busy = 0


(* --------------------------- the parity scenario ----------------------- *)
\* a 7-track drive with a writable volume and a drive without one: the
\* channel sets the mode (odd or even parity, translator and converter
\* off) and writes a 6-bit value
SixBit == 0 .. 63
ParitySetups == { << Drive(FALSE, TRUE, FALSE, << >>),
                     Drive(TRUE, FALSE, FALSE, << >>) >> }
ParityCmds == { MT_WRITE, 35, 51 }
ParityDins(u) == IF MtCmd(Cur, u) = MT_WRITE /\ ccw_cnt[u] > 0
                 THEN SixBit ELSE {0}
InitParity == InitTape(ParitySetups, MaxOps)
NextParity ==
    \/ \E u \in Units : \E cmd \in ParityCmds : MtStart(u, cmd, 1)
    \/ \E u \in Units : \E din \in ParityDins(u) : MtSrv(u, din, 0)
SpecParity == InitParity /\ [][NextParity]_vars

\* the service step of a 7-track Write, translator and converter off, has
\* stored the first frame of its record
StoredFrame(u) ==
    /\ log.op = "srv" /\ log.u = u /\ log.pre = MT_WRITE
    /\ Is7Track(Cur, u) /\ ~Has(u3[u], MT_CONV) /\ ~Has(u3[u], MT_TRANS)
    /\ u4[u] = 1 /\ hwmark[u] = 1

\* C38: the frame a 7-track Write stores for a 6-bit value passes the
\* parity test that Read and Read Backward apply in the same parity mode:
\* neither raises data check and VRC for it.
C38_WrittenParityAccepted ==
    \A u \in Units : StoredFrame(u) =>
       /\ ~ReadParityError(mt_buffer[0], ModeOf(Cur, u))
       /\ ~RdbkParityError(mt_buffer[0], ModeOf(Cur, u))


\* ---------------------------------------------------------------------------
\* The clocks (sel32_clk.c): the interval timer and the real-time clock,
\* which share the interrupt flags INTS and irq_pend.  itm_unit holds the
\* delay the pending event was armed with, count * tick size, in hundredths
\* of a microsecond, -1 when no event is pending.
\* ---------------------------------------------------------------------------
ItmOps == 4
ItmCmds == { 32, 57, 61, 64, 96, 121 }
\* the counts the CPU loads.  (A Load, 0x39, of a count <= 0 arms 26042
\* ticks, line 319; the runs here load it with a positive count, the other
\* commands with either.)
ItmCounts(cmd) == IF cmd = 57 THEN { 3 } ELSE { 0, 3 }
ItmTickSizes == { 3840, 7680 }
RtcFreqs == { 50, 60, 100, 120 }
\* what sim_rtcn_calb may return: the wait the clock started with, or a
\* wait calibrated to the host
RtcCalbs == { 16666, 8333 }
devvars == << flags, u3, u4, u5, u6, hwmark, mt_busy, mt_buffer, tape, pos,
              sim_queue, ccw_cnt, ddata, file, dtype >>

ItmCur ==
    [ itm_pie |-> itm_pie, itm_cmd |-> itm_cmd, itm_cnt |-> itm_cnt,
      itm_lvl |-> itm_lvl, itm_tick_size_x_100 |-> itm_tick_size_x_100,
      itm_unit |-> itm_unit, rtc_pie |-> rtc_pie, rtc_tps |-> rtc_tps,
      rtc_lvl |-> rtc_lvl, rtc_unit |-> rtc_unit, INTS |-> INTS,
      irq_pend |-> irq_pend, rc |-> 0 ]

ItmBecomes(T, op, cmd) ==
    /\ itm_pie' = T.itm_pie /\ itm_cmd' = T.itm_cmd /\ itm_cnt' = T.itm_cnt
    /\ itm_lvl' = T.itm_lvl
    /\ itm_tick_size_x_100' = T.itm_tick_size_x_100
    /\ itm_unit' = T.itm_unit
    /\ rtc_pie' = T.rtc_pie /\ rtc_tps' = T.rtc_tps /\ rtc_lvl' = T.rtc_lvl
    /\ rtc_unit' = T.rtc_unit
    /\ INTS' = T.INTS
    /\ irq_pend' = T.irq_pend
    /\ log' = [NewLog(op, 0, cmd, 0) EXCEPT !.rc = T.rc]
    /\ UNCHANGED << sim, devvars >>

\* sim_activate_after_abs_d (&itm_unit, ((double)cnt * tick size) / 100.0):
\* the event replaces a pending one
ItmArm(T, cnt) == [T EXCEPT !.itm_unit = cnt * T.itm_tick_size_x_100]

\* (uint32)(100.0 * sim_activate_time_usecs (&itm_unit) / tick size), lines
\* 334, 341, 352: the time left of the pending event, between nothing and
\* the delay it was armed with, in ticks of the present size and truncated;
\* 0 when no event is pending.  Which of the values a read returns depends
\* on the time that has passed and on the rounding of the conversions.
ItmRemaining(T) ==
    IF T.itm_unit >= 0 THEN 0 .. (T.itm_unit \div T.itm_tick_size_x_100)
    ELSE { 0 }

\* itm_srv: the event has expired (the scheduler has already removed it)
itm_srv(T0) ==
    LET T  == [T0 EXCEPT !.itm_unit = -1]
        en == "INTS_ENAB" \in T.INTS[T.itm_lvl]
        T1 == IF T.itm_pie # 0 /\ en /\ "INTS_ACT" \notin T.INTS[T.itm_lvl]
              THEN [T EXCEPT !.INTS[T.itm_lvl] = @ \cup {"INTS_REQ"},
                             !.irq_pend = 1]
              ELSE T
    IN  IF T.itm_pie # 0 /\ en /\ T.itm_cmd = 61 /\ T.itm_cnt # 0
        THEN ItmArm(T1, T.itm_cnt)
        ELSE T1

\* itm_rdwr; temp is the value the read of the remaining time returned
itm_rdwr(T0, cmd, cnt, temp) ==
    LET T == [T0 EXCEPT !.itm_cmd = cmd]
    IN  CASE cmd = 32 ->
               [T EXCEPT !.itm_unit = -1, !.itm_cnt = 0, !.itm_pie = 0, !.rc = 0]
          [] cmd = 57 ->
               [ItmArm(T, IF cnt <= 0 THEN 26042 ELSE cnt)
                   EXCEPT !.itm_cnt = 0, !.itm_pie = 1, !.rc = 0]
          [] cmd = 61 ->
               [ItmArm(T, cnt) EXCEPT !.itm_cnt = cnt, !.itm_pie = 1, !.rc = 0]
          [] cmd = 96 ->
               [T EXCEPT !.rc = temp, !.itm_unit = -1, !.itm_pie = 0]
          [] cmd = 121 ->
               [ItmArm(T, cnt) EXCEPT !.rc = temp, !.itm_cnt = 0, !.itm_pie = 1]
          [] cmd = 64 ->
               [T EXCEPT !.rc = temp, !.itm_pie = 1]
          [] OTHER -> [T EXCEPT !.rc = 0]

itm_setup(T0, ss, level) ==
    LET T == [T0 EXCEPT !.itm_lvl = level]
        T1 == IF ss = 1
              THEN [T EXCEPT !.INTS[level] = @ \cup {"INTS_ENAB"}]
              ELSE [T EXCEPT !.itm_unit = -1,
                             !.INTS[level] = @ \ {"INTS_ENAB"}]
    IN  [T1 EXCEPT !.itm_pie = ss]

itm_reset(T) == [T EXCEPT !.itm_pie = 0, !.itm_unit = -1]

\* itm_set_freq (lines 392-400) as the SET ITM modifiers call it (lines
\* 240-243): cptr is NULL and val is one of the two tick sizes
itm_set_freq(T, val) ==
    IF val # 3840 /\ val # 7680 THEN T
    ELSE [T EXCEPT !.itm_tick_size_x_100 = val]

\* sim_activate (&rtc_unit, t): a unit already in the event queue is left
\* where it is
RtcActivate(T, t) ==
    [T EXCEPT !.rtc_unit.event = IF @ = -1 THEN t ELSE @]

\* rtc_srv (lines 113-129): the event has expired (the scheduler has
\* already removed it); calb is what sim_rtcn_calb returned
rtc_srv(T0, calb) ==
    LET T  == [T0 EXCEPT !.rtc_unit.event = -1]
        T1 == IF /\ T.rtc_pie # 0
                 /\ "INTS_ENAB" \in T.INTS[T.rtc_lvl]
                 /\ "INTS_ACT" \notin T.INTS[T.rtc_lvl]
              THEN [T EXCEPT !.INTS[T.rtc_lvl] = @ \cup {"INTS_REQ"},
                             !.irq_pend = 1]
              ELSE T
    IN  [T1 EXCEPT !.rtc_unit = [ wait |-> calb,
                                   event |-> 1000000 \div T.rtc_tps ]]

\* rtc_setup (lines 135-159)
rtc_setup(T0, ss, level) ==
    LET T == [T0 EXCEPT !.rtc_lvl = level]
        T1 == IF ss = 1
              THEN RtcActivate([T EXCEPT !.INTS[level] = @ \cup {"INTS_ENAB"}],
                               20)
              ELSE [T EXCEPT !.INTS[level] = @ \ {"INTS_ENAB"}]
    IN  [T1 EXCEPT !.rtc_pie = ss]

\* rtc_reset (lines 162-169); sim_rtcn_init_unit returns the wait it is
\* given
rtc_reset(T) == RtcActivate([T EXCEPT !.rtc_pie = 0], T.rtc_unit.wait)

\* rtc_set_freq (lines 172-180) as the SET RTC modifiers call it (lines
\* 81-88)
rtc_set_freq(T, val) ==
    IF val \notin {50, 60, 100, 120} THEN T
    ELSE [T EXCEPT !.rtc_tps = val]

InitITM ==
    /\ sim = "ITM"
    /\ flags = [u \in Units |-> {}]
    /\ file = [u \in Units |-> NoFile]
    /\ ddata = [u \in Units |-> NoData]
    /\ dtype = [u \in Units |-> DiskType]
    /\ u3 = [u \in Units |-> 0]
    /\ u4 = [u \in Units |-> 0]
    /\ u5 = [u \in Units |-> 0]
    /\ u6 = [u \in Units |-> 0]
    /\ hwmark = [u \in Units |-> 0]
    /\ mt_busy = 0
    /\ mt_buffer = [i \in 0 .. (BufCells - 1) |-> 0]
    /\ tape = [u \in Units |-> << >>]
    /\ pos = [u \in Units |-> 0]
    /\ sim_queue = [u \in Units |-> -1]
    /\ ccw_cnt = [u \in Units |-> 0]
    /\ left = ItmOps
    /\ log = NewLog("init", 0, 0, 0)
    /\ ItmIdle

\* the CPU gives the timer a command; a command that reads the timer
\* gets one of the values the remaining time can convert to
ItmRdwr(cmd, cnt) ==
    /\ sim = "ITM" /\ left > 0 /\ left' = left - 1
    /\ \E temp \in (IF cmd \in {64, 96, 121} THEN ItmRemaining(ItmCur)
                    ELSE { 0 }) :
          ItmBecomes(itm_rdwr(ItmCur, cmd, cnt, temp), "itm_rdwr", cmd)

\* the scheduler delivers the pending event
ItmSrv ==
    /\ sim = "ITM" /\ itm_unit >= 0 /\ left' = left
    /\ ItmBecomes(itm_srv(ItmCur), "itm_srv", 0)

ItmSetup(ss, level) ==
    /\ sim = "ITM" /\ left > 0 /\ left' = left - 1
    /\ ItmBecomes(itm_setup(ItmCur, ss, level), "itm_setup", ss)

ItmReset ==
    /\ sim = "ITM" /\ left > 0 /\ left' = left - 1
    /\ ItmBecomes(itm_reset(ItmCur), "itm_reset", 0)

\* the operator sets the tick size (SET ITM 3840us | 7680us)
ItmSetFreq(val) ==
    /\ sim = "ITM" /\ left > 0 /\ left' = left - 1
    /\ ItmBecomes(itm_set_freq(ItmCur, val), "itm_set_freq", val)

\* the scheduler delivers the clock's pending event
RtcSrv(calb) ==
    /\ sim = "ITM" /\ rtc_unit.event >= 0 /\ left' = left
    /\ ItmBecomes(rtc_srv(ItmCur, calb), "rtc_srv", 0)

RtcSetup(ss, level) ==
    /\ sim = "ITM" /\ left > 0 /\ left' = left - 1
    /\ ItmBecomes(rtc_setup(ItmCur, ss, level), "rtc_setup", ss)

RtcReset ==
    /\ sim = "ITM" /\ left > 0 /\ left' = left - 1
    /\ ItmBecomes(rtc_reset(ItmCur), "rtc_reset", 0)

\* the operator sets the clock rate (SET RTC 50HZ | 60HZ | 100HZ | 120HZ)
RtcSetFreq(val) ==
    /\ sim = "ITM" /\ left > 0 /\ left' = left - 1
    /\ ItmBecomes(rtc_set_freq(ItmCur, val), "rtc_set_freq", val)

\* the CPU takes a requested interrupt of an enabled level: the request
\* becomes the active interrupt
IntTake(l) ==
    /\ sim = "ITM" /\ left > 0 /\ left' = left - 1
    /\ {"INTS_ENAB", "INTS_REQ"} \subseteq INTS[l]
    /\ "INTS_ACT" \notin INTS[l]
    /\ ItmBecomes([ItmCur EXCEPT !.INTS[l] = (@ \ {"INTS_REQ"}) \cup {"INTS_ACT"}],
                  "int_take", l)

\* the interrupt routine ends: the level is no longer active
IntDone(l) ==
    /\ sim = "ITM" /\ left > 0 /\ left' = left - 1
    /\ "INTS_ACT" \in INTS[l]
    /\ ItmBecomes([ItmCur EXCEPT !.INTS[l] = @ \ {"INTS_ACT"}], "int_done", l)

NextITM ==
    \/ \E cmd \in ItmCmds : \E cnt \in ItmCounts(cmd) : ItmRdwr(cmd, cnt)
    \/ ItmSrv
    \/ \E ss \in {0, 1}, l \in ItmLevels : ItmSetup(ss, l)
    \/ ItmReset
    \/ \E val \in ItmTickSizes : ItmSetFreq(val)
    \/ \E calb \in RtcCalbs : RtcSrv(calb)
    \/ \E ss \in {0, 1}, l \in RtcLevels : RtcSetup(ss, l)
    \/ RtcReset
    \/ \E val \in RtcFreqs : RtcSetFreq(val)
    \/ \E l \in IntLevels : IntTake(l)
    \/ \E l \in IntLevels : IntDone(l)

SpecITM == InitITM /\ [][NextITM]_vars

\* the timer is in reload mode: armed by a load-and-reload command whose
\* count is still the reload count, on an enabled level
ItmReloading ==
    /\ itm_unit >= 0 /\ itm_cnt # 0
    /\ "INTS_ENAB" \in INTS[itm_lvl]

\* C39: in reload mode every expiry re-arms the timer with the reload count
\* and requests the interrupt unless the level is already active, and a read
\* of the timer value (0x40) leaves the pending event as it was, so the
\* timer stays in reload mode across it.
C39_AutoReload ==
    [][ /\ (log'.op = "itm_srv" /\ ItmReloading) =>
             /\ itm_unit' = itm_cnt * itm_tick_size_x_100
             /\ ("INTS_ACT" \notin INTS[itm_lvl] =>
                    "INTS_REQ" \in INTS'[itm_lvl])
        /\ (log'.op = "itm_rdwr" /\ log'.cmd = 64) =>
             /\ itm_unit' = itm_unit
             /\ (ItmReloading => ItmReloading')
      ]_vars

\* the same expiry, restricted to timers whose last command is still the
\* load-and-reload command
C39_ReloadsWhileLastCommand ==
    [][ (log'.op = "itm_srv" /\ ItmReloading /\ itm_cmd = 61) =>
             /\ itm_unit' = itm_cnt * itm_tick_size_x_100
             /\ ("INTS_ACT" \notin INTS[itm_lvl] =>
                    "INTS_REQ" \in INTS'[itm_lvl])
      ]_vars

\* a read of the timer value came between the load and the expiry and the
\* expiry did not re-arm the timer
C39_ReadEndsReloading ==
    ~ ( /\ log.op = "itm_srv" /\ itm_cmd = 64 /\ itm_cnt # 0
        /\ "INTS_ENAB" \in INTS[itm_lvl] /\ itm_unit = -1 )

====
